---- MODULE Spec2Model ----
(***************************************************************************)
(* Model of the retrieval/generation core of the SEO RAG planner:          *)
(*   src/src/lib/llm/generator.ts   (generatePlanningReport, safeParseJSON) *)
(*   src/src/lib/rag/pipeline.ts    (RAGPipeline.initialize)                *)
(*   the three ensureRAGInitialized guards of the request routes.          *)
(*                                                                         *)
(* Text is modelled as a sequence of one-character strings, so that the    *)
(* regular expressions, slices and JSON.parse of the source are computed   *)
(* character by character.                                                  *)
(***************************************************************************)
EXTENDS Integers, Sequences, FiniteSets

(***************************************************************************)
(* String primitives of the JavaScript runtime used by the source.         *)
(***************************************************************************)

\* s[i], or a marker that equals no character when i is outside the string.
At(s, i) == IF i \in 1..Len(s) THEN s[i] ELSE "EOF"

\* \s of the regular expressions, restricted to the characters of the texts.
WhiteSpace == {" ", "\t", "\n", "\r"}

\* [\r\n] of the regular expressions.
LineBreak == {"\n", "\r"}

MinOf(c) == CHOOSE i \in c : \A j \in c : i <= j

MaxOf(c) == CHOOSE i \in c : \A j \in c : i >= j

\* p occurs in s at position i.
IsPrefixAt(s, p, i) ==
  /\ i >= 1
  /\ i + Len(p) - 1 <= Len(s)
  /\ \A k \in 1..Len(p) : s[i + k - 1] = p[k]

\* String.prototype.indexOf from a position: 1-based, 0 when absent (-1 in JS).
IndexOfFrom(s, p, from) ==
  LET c == {i \in from..(Len(s) - Len(p) + 1) : IsPrefixAt(s, p, i)}
  IN  IF c = {} THEN 0 ELSE MinOf(c)

IndexOf(s, p) == IndexOfFrom(s, p, 1)

\* String.prototype.lastIndexOf: 1-based, 0 when absent.
LastIndexOf(s, p) ==
  LET c == {i \in 1..(Len(s) - Len(p) + 1) : IsPrefixAt(s, p, i)}
  IN  IF c = {} THEN 0 ELSE MaxOf(c)

\* String.prototype.includes.
Includes(s, p) == IndexOf(s, p) # 0

\* String.prototype.slice(0, n).
SliceTo(s, n) == SubSeq(s, 1, IF Len(s) < n THEN Len(s) ELSE n)


\* The characters of s whose index is in keep, in order.
KeepIndices(s, keep) ==
  LET tagged == [i \in 1..Len(s) |-> [c |-> s[i], keep |-> i \in keep]]
      Kept(x) == x.keep
      kept   == SelectSeq(tagged, Kept)
  IN  [i \in 1..Len(kept) |-> kept[i].c]

\* Every character of the set from replaced by the character to.
MapChars(s, from, to) == [i \in 1..Len(s) |-> IF s[i] \in from THEN to ELSE s[i]]

\* .replace(/[\r\n]+/g, ' '): each run of line breaks becomes one space.
ReplaceLineBreaks(s) ==
  LET keep == {i \in 1..Len(s) : ~(s[i] \in LineBreak /\ At(s, i - 1) \in LineBreak)}
  IN  MapChars(KeepIndices(s, keep), LineBreak, " ")

\* .replace(/\t/g, ' ')
ReplaceTabs(s) == MapChars(s, {"\t"}, " ")

\* .replace(/\s{2,}/g, ' '): each run of two or more white-space characters
\* becomes one space (a single white-space character is left as it is).
CollapseSpaces(s) ==
  LET InRun(i) == s[i] \in WhiteSpace
                  /\ (At(s, i - 1) \in WhiteSpace \/ At(s, i + 1) \in WhiteSpace)
      Keep(i)  == ~(InRun(i) /\ At(s, i - 1) \in WhiteSpace)
      marked   == [i \in 1..Len(s) |-> IF InRun(i) THEN " " ELSE s[i]]
      tagged   == [i \in 1..Len(s) |-> [c |-> marked[i], keep |-> Keep(i)]]
      Kept(x)  == x.keep
      kept     == SelectSeq(tagged, Kept)
  IN  [i \in 1..Len(kept) |-> kept[i].c]

\* First position >= i that holds no white space (Len(s) + 1 when there is none).
RECURSIVE SkipSpace(_, _)
SkipSpace(s, i) == IF At(s, i) \in WhiteSpace THEN SkipSpace(s, i + 1) ELSE i

\* Last position <= i that holds no white space (0 when there is none).
RECURSIVE SkipSpaceBack(_, _)
SkipSpaceBack(s, i) == IF At(s, i) \in WhiteSpace THEN SkipSpaceBack(s, i - 1) ELSE i

\* Last position of s that holds no white space (0 when there is none).
LastInk(s) == SkipSpaceBack(s, Len(s))

\* String.prototype.trim.
Trim(s) == SubSeq(s, SkipSpace(s, 1), LastInk(s))

\* Position i starts a match of /,\s*X/ (X one character).
CommaBefore(s, i, x) == At(s, i) = "," /\ At(s, SkipSpace(s, i + 1)) = x

\* Position i lies in the part of a match of /,\s*X/ that precedes X.
RECURSIVE InCommaRun(_, _, _)
InCommaRun(s, i, x) ==
  \/ CommaBefore(s, i, x)
  \/ /\ At(s, i) \in WhiteSpace
     /\ At(s, SkipSpace(s, i)) = x
     /\ i > 1
     /\ \/ s[i - 1] = ","
        \/ /\ s[i - 1] \in WhiteSpace
           /\ InCommaRun(s, i - 1, x)

\* .replace(/,\s*X/g, 'X'): a comma followed (after white space) by X is dropped
\* together with that white space.
DropCommaBefore(s, x) ==
  LET keep == {i \in 1..Len(s) : ~InCommaRun(s, i, x)}
  IN  KeepIndices(s, keep)

(***************************************************************************)
(* JSON values and JSON.parse.                                              *)
(***************************************************************************)

Undefined == [t |-> "undefined"]

JNull == [t |-> "null"]

JBool(b) == [t |-> IF b THEN "true" ELSE "false"]

JNumber(n) == [t |-> "number", n |-> n]

JString(s) == [t |-> "string", s |-> s]

JArray(a) == [t |-> "array", a |-> a]

\* An object is its members in source order: <<[k |-> key, v |-> value], ...>>.
JObject(o) == [t |-> "object", o |-> o]

\* The outcome of a parse that threw.
Threw == [ok |-> FALSE, v |-> Undefined, next |-> 0]

Parsed(v, next) == [ok |-> TRUE, v |-> v, next |-> next]

Digits == {"0", "1", "2", "3", "4", "5", "6", "7", "8", "9"}

DigitValue(c) ==
  CASE c = "0" -> 0 [] c = "1" -> 1 [] c = "2" -> 2 [] c = "3" -> 3 [] c = "4" -> 4
    [] c = "5" -> 5 [] c = "6" -> 6 [] c = "7" -> 7 [] c = "8" -> 8 [] c = "9" -> 9

\* The characters a JSON string may not hold unescaped.
ControlChars == {"\n", "\r", "\t"}

\* The character an escape sequence \c stands for.
Unescape(c) ==
  CASE c = "n" -> "\n" [] c = "r" -> "\r" [] c = "t" -> "\t" [] OTHER -> c

Escapable == {"\"", "\\", "/", "n", "r", "t"}

\* The rest of a string literal whose opening quote precedes position i.
RECURSIVE ParseChars(_, _, _)
ParseChars(s, i, acc) ==
  LET c == At(s, i) IN
  IF i > Len(s) THEN Threw
  ELSE IF c = "\"" THEN Parsed(JString(acc), i + 1)
  ELSE IF c = "\\" THEN
    IF At(s, i + 1) \in Escapable
    THEN ParseChars(s, i + 2, Append(acc, Unescape(s[i + 1])))
    ELSE Threw
  ELSE IF c \in ControlChars THEN Threw
  ELSE ParseChars(s, i + 1, Append(acc, c))

\* The digits of an integer literal from position i on.
RECURSIVE ParseDigits(_, _, _)
ParseDigits(s, i, acc) ==
  IF At(s, i) \in Digits
  THEN ParseDigits(s, i + 1, 10 * acc + DigitValue(s[i]))
  ELSE [n |-> acc, next |-> i]

\* An integer literal: -?(0|[1-9][0-9]*). Fractions and exponents are not in
\* the alphabet of the modelled texts.
ParseNumber(s, i) ==
  LET neg   == At(s, i) = "-"
      first == IF neg THEN i + 1 ELSE i
      d     == ParseDigits(s, first, 0)
  IN  IF At(s, first) \notin Digits THEN Threw
      ELSE IF s[first] = "0" /\ d.next > first + 1 THEN Threw
      ELSE Parsed(JNumber(IF neg THEN 0 - d.n ELSE d.n), d.next)

RECURSIVE ParseValue(_, _)
RECURSIVE ParseElements(_, _, _)
RECURSIVE ParseMembers(_, _, _)

\* The elements of an array from position i (a value is expected there).
ParseElements(s, i, acc) ==
  LET r == ParseValue(s, SkipSpace(s, i))
      j == SkipSpace(s, r.next)
  IN  IF ~r.ok THEN Threw
      ELSE IF At(s, j) = "," THEN ParseElements(s, j + 1, Append(acc, r.v))
      ELSE IF At(s, j) = "]" THEN Parsed(JArray(Append(acc, r.v)), j + 1)
      ELSE Threw

\* The members of an object from position i (a key is expected there).
ParseMembers(s, i, acc) ==
  LET k  == SkipSpace(s, i)
      ks == IF At(s, k) = "\"" THEN ParseChars(s, k + 1, <<>>) ELSE Threw
      c  == SkipSpace(s, ks.next)
      r  == IF ks.ok /\ At(s, c) = ":" THEN ParseValue(s, SkipSpace(s, c + 1)) ELSE Threw
      j  == SkipSpace(s, r.next)
      m  == Append(acc, [k |-> ks.v.s, v |-> r.v])
  IN  IF ~r.ok THEN Threw
      ELSE IF At(s, j) = "," THEN ParseMembers(s, j + 1, m)
      ELSE IF At(s, j) = "}" THEN Parsed(JObject(m), j + 1)
      ELSE Threw

\* One JSON value starting exactly at position i.
ParseValue(s, i) ==
  LET c == At(s, i) IN
  IF c = "{" THEN
    IF At(s, SkipSpace(s, i + 1)) = "}"
    THEN Parsed(JObject(<<>>), SkipSpace(s, i + 1) + 1)
    ELSE ParseMembers(s, i + 1, <<>>)
  ELSE IF c = "[" THEN
    IF At(s, SkipSpace(s, i + 1)) = "]"
    THEN Parsed(JArray(<<>>), SkipSpace(s, i + 1) + 1)
    ELSE ParseElements(s, i + 1, <<>>)
  ELSE IF c = "\"" THEN ParseChars(s, i + 1, <<>>)
  ELSE IF IsPrefixAt(s, <<"t", "r", "u", "e">>, i) THEN Parsed(JBool(TRUE), i + 4)
  ELSE IF IsPrefixAt(s, <<"f", "a", "l", "s", "e">>, i) THEN Parsed(JBool(FALSE), i + 5)
  ELSE IF IsPrefixAt(s, <<"n", "u", "l", "l">>, i) THEN Parsed(JNull, i + 4)
  ELSE ParseNumber(s, i)

\* JSON.parse(s): one value, white space around it, nothing else; throws otherwise.
JSONParse(s) ==
  LET r == ParseValue(s, SkipSpace(s, 1))
  IN  IF r.ok /\ SkipSpace(s, r.next) = Len(s) + 1 THEN r ELSE Threw

\* JavaScript truthiness of a parsed value (!v is its negation).
Truthy(v) ==
  CASE v.t = "string" -> v.s # <<>>
    [] v.t = "number" -> v.n # 0
    [] v.t \in {"true", "array", "object"} -> TRUE
    [] OTHER -> FALSE

\* v[key]: the last member of that name of an object, undefined otherwise
\* (none of the names read by the source is a property of a string, a number,
\* a boolean or an array).
Get(v, key) ==
  IF v.t # "object" THEN Undefined
  ELSE LET c == {i \in 1..Len(v.o) : v.o[i].k = key}
       IN  IF c = {} THEN Undefined ELSE v.o[MaxOf(c)].v

\* Array.isArray(v)
IsArray(v) == v.t = "array"

(***************************************************************************)
(* The response repair chain of generator.ts.                               *)
(***************************************************************************)

\* The backquote character is written "BQ" in the texts of this module.
Fence == <<"BQ", "BQ", "BQ">>

FenceJson == <<"BQ", "BQ", "BQ", "j", "s", "o", "n">>

\* text.match of the fenced-block pattern (three backquotes, json, white space,
\* a lazy group, white space, three backquotes): found, and capture group 1.
\* The group starts after the white space that follows the first opening fence
\* and ends before the white space that precedes the next three backquotes.
FenceMatch(text) ==
  LET open  == IndexOf(text, FenceJson)
      from  == SkipSpace(text, open + Len(FenceJson))
      close == IF open = 0 THEN 0 ELSE IndexOfFrom(text, Fence, from)
      stop  == MinOf({k \in from..close :
                       \A j \in k..(close - 1) : text[j] \in WhiteSpace})
  IN  IF open = 0 \/ close = 0
      THEN [found |-> FALSE, g1 |-> <<>>]
      ELSE [found |-> TRUE, g1 |-> SubSeq(text, from, stop - 1)]

\* text.match(/(\{[\s\S]*\})/): from the first { to the last } after it.
BraceMatch(text) ==
  LET first == IndexOf(text, <<"{">>)
      last  == LastIndexOf(text, <<"}">>)
  IN  IF first # 0 /\ last > first
      THEN [found |-> TRUE, g1 |-> SubSeq(text, first, last)]
      ELSE [found |-> FALSE, g1 |-> <<>>]

\* A match of the quote-pair pattern (a quote, white space, a quote) starts at
\* i: the position of its closing quote, else 0.
QuotePairEnd(s, i) ==
  IF At(s, i) = "\"" /\ At(s, SkipSpace(s, i + 1)) = "\""
  THEN SkipSpace(s, i + 1) ELSE 0

\* A match of the quote-triple pattern (two quotes, white space, a quote)
\* starts at i: the position of its closing quote, else 0.
QuoteTripleEnd(s, i) ==
  IF At(s, i) = "\"" /\ At(s, i + 1) = "\"" /\ At(s, SkipSpace(s, i + 2)) = "\""
  THEN SkipSpace(s, i + 2) ELSE 0

\* The replace of every quote triple by two quotes, scanning from position i.
RECURSIVE FixTripleFrom(_, _, _)
FixTripleFrom(s, i, acc) ==
  IF i > Len(s) THEN acc
  ELSE IF QuoteTripleEnd(s, i) # 0
  THEN FixTripleFrom(s, QuoteTripleEnd(s, i) + 1, acc \o <<"\"", "\"">>)
  ELSE FixTripleFrom(s, i + 1, Append(acc, s[i]))

FixTripleQuotes(s) ==
  IF \E i \in 1..Len(s) : QuoteTripleEnd(s, i) # 0 THEN FixTripleFrom(s, 1, <<>>) ELSE s

\* The replace of every quote pair by quote-space-quote, scanning from i.
RECURSIVE FixPairFrom(_, _, _)
FixPairFrom(s, i, acc) ==
  IF i > Len(s) THEN acc
  ELSE IF QuotePairEnd(s, i) # 0
  THEN FixPairFrom(s, QuotePairEnd(s, i) + 1, acc \o <<"\"", " ", "\"">>)
  ELSE FixPairFrom(s, i + 1, Append(acc, s[i]))

FixQuotePairs(s) ==
  IF \E i \in 1..Len(s) : QuotePairEnd(s, i) # 0 THEN FixPairFrom(s, 1, <<>>) ELSE s

\* repairJSON(raw)
repairJSON(raw) ==
  LET trimmed  == Trim(raw)
      block    == FenceMatch(trimmed)
      unfenced == IF block.found THEN Trim(block.g1) ELSE trimmed
      first    == IndexOf(unfenced, <<"{">>)
      last     == LastIndexOf(unfenced, <<"}">>)
      json     == IF first # 0 /\ last > first
                  THEN SubSeq(unfenced, first, last) ELSE unfenced
  IN  FixQuotePairs(
        FixTripleQuotes(
          CollapseSpaces(
            ReplaceTabs(
              ReplaceLineBreaks(
                DropCommaBefore(DropCommaBefore(json, "]"), "}"))))))

\* .replace(/,\s*$/, '')
StripFinalComma(s) ==
  IF At(s, LastInk(s)) = "," THEN SubSeq(s, 1, LastInk(s) - 1) ELSE s

\* .replace(/,\s*X(\s*)$/, 'X$1') for X one character.
DropCommaBeforeFinal(s, x) ==
  LET e == LastInk(s)
      c == LastInk(SubSeq(s, 1, e - 1))
  IN  IF At(s, e) = x /\ At(s, c) = ","
      THEN SubSeq(s, 1, c - 1) \o SubSeq(s, e, Len(s))
      ELSE s

OutlinePattern == <<"\"", "o", "u", "t", "l", "i", "n", "e", "\"", ":">>

\* The replace of an unterminated outline array: an outline array that is not
\* closed before the end of the string is cut right after its [ and closed.
CloseOutline(s) ==
  LET Bracket(i) == SkipSpace(s, i + Len(OutlinePattern))
      c == {i \in 1..Len(s) :
              /\ IsPrefixAt(s, OutlinePattern, i)
              /\ At(s, Bracket(i)) = "["
              /\ \A j \in (Bracket(i) + 1)..Len(s) : s[j] # "]"}
  IN  IF c = {} THEN s ELSE SubSeq(s, 1, Bracket(MinOf(c))) \o <<"]">>

TitleKey == <<"t", "i", "t", "l", "e">>

\* What one strategy hands back: returned = it reached its return statement
\* with value v; otherwise control falls through to the next strategy.
Returned(v) == [returned |-> TRUE, v |-> v]

FellThrough == [returned |-> FALSE, v |-> Undefined]

\* First attempt: the fenced code block.
Strategy1(text) ==
  LET m == FenceMatch(text)
      r == JSONParse(ReplaceTabs(ReplaceLineBreaks(m.g1)))
  IN  IF m.found /\ m.g1 # <<>> /\ r.ok THEN Returned(r.v) ELSE FellThrough

\* Second attempt: first { to last }.
Strategy2(text) ==
  LET m == BraceMatch(text)
      r == JSONParse(ReplaceTabs(ReplaceLineBreaks(m.g1)))
  IN  IF m.found /\ r.ok THEN Returned(r.v) ELSE FellThrough

\* Third attempt: full repair.
Strategy3(text) ==
  LET r == JSONParse(repairJSON(text))
  IN  IF r.ok THEN Returned(r.v) ELSE FellThrough

\* Lines 133-146: the JSON.parse of the fourth attempt; it throws as well when
\* no { is followed by a later }.
Strategy4Parse(text) ==
  LET m == BraceMatch(text)
      truncated == CloseOutline(
                     DropCommaBeforeFinal(
                       DropCommaBeforeFinal(StripFinalComma(m.g1), "]"), "}"))
  IN  IF m.found THEN JSONParse(ReplaceTabs(ReplaceLineBreaks(truncated)))
      ELSE Threw

\* Fourth attempt: truncated JSON.
Strategy4(text) ==
  LET r == Strategy4Parse(text)
  IN  IF r.ok /\ Truthy(r.v) /\ Truthy(Get(r.v, TitleKey))
      THEN Returned(r.v) ELSE FellThrough

\* The value an attempt returned, or else what the code after its try block
\* gives.
OrNext(attempt, rest) == IF attempt.returned THEN attempt.v ELSE rest

\* safeParseJSON(text): the value of the first strategy that returns, else null.
safeParseJSON(text) ==
  OrNext(Strategy1(text),
    OrNext(Strategy2(text),
      OrNext(Strategy3(text),
        OrNext(Strategy4(text), JNull))))

(***************************************************************************)
(* generatePlanningReport (generator.ts): literals.  Literals written in    *)
(* Chinese in the source are rendered in ASCII here.                        *)
(***************************************************************************)

\* MODEL_FALLBACKS: the model candidates, most preferred first.
MODEL_FALLBACKS == <<
  <<"g","e","m","i","n","i","-","3","-","f","l","a","s","h">>,
  <<"g","e","m","i","n","i","-","3","-","p","r","o">>,
  <<"g","e","m","i","n","i","-","3",".","1","-","p","r","o">>,
  <<"g","e","m","i","n","i","-","2",".","5","-","p","r","o">>,
  <<"g","e","m","i","n","i","-","2",".","5","-","f","l","a","s","h">>>>

\* The substring of an error message that marks an invalid credential.
ApiKeyMarker ==
  <<"A","P","I"," ","k","e","y">>

UnknownError ==
  <<"U","n","k","n","o","w","n"," ","e","r","r","o","r">>

MissingKeyMessage ==
  <<"G","E","M","I","N","I","_","A","P","I","_","K","E","Y"," ","e","n","v","i","r","o","n","m",
    "e","n","t"," ","v","a","r","i","a","b","l","e"," ","i","s"," ","n","o","t"," ","s","e","t">>

InvalidKeyMessage ==
  <<"I","n","v","a","l","i","d"," ","G","e","m","i","n","i"," ","A","P","I"," ","k","e","y",".",
    " ","P","l","e","a","s","e"," ","c","h","e","c","k"," ","y","o","u","r"," ","G","E","M","I",
    "N","I","_","A","P","I","_","K","E","Y"," ","e","n","v","i","r","o","n","m","e","n","t"," ",
    "v","a","r","i","a","b","l","e",".">>

\* The head of the aggregate message, up to and including its line break.
AllFailedPrefix ==
  <<"A","l","l"," ","m","o","d","e","l","s"," ","f","a","i","l","e","d",":","\n">>

\* What follows the keyword in the default title.
TitleSuffix ==
  <<" ","-"," ","S","E","O"," ","p","l","a","n">>

EntrySeparator ==
  <<":"," ">>

OutlineKey ==
  <<"o","u","t","l","i","n","e">>

ComplianceNotesKey ==
  <<"c","o","m","p","l","i","a","n","c","e","N","o","t","e","s">>

ContentStrategyKey ==
  <<"c","o","n","t","e","n","t","S","t","r","a","t","e","g","y">>

RiskWarningsKey ==
  <<"r","i","s","k","W","a","r","n","i","n","g","s">>

DisclaimerKey ==
  <<"d","i","s","c","l","a","i","m","e","r">>

HeadingKey ==
  <<"h","e","a","d","i","n","g">>

DescriptionKey ==
  <<"d","e","s","c","r","i","p","t","i","o","n">>

SourceKey ==
  <<"s","o","u","r","c","e">>

RawOutputHeading ==
  <<"P","l","a","n"," ","(","r","a","w"," ","o","u","t","p","u","t",")">>

SeoStrategy ==
  <<"s","e","o","_","s","t","r","a","t","e","g","y">>

DefaultComplianceNote ==
  <<"S","e","e"," ","t","h","e"," ","c","o","m","p","l","i","a","n","c","e"," ","m","a","n","u",
    "a","l">>

DefaultRiskWarning ==
  <<"F","o","r"," ","r","e","f","e","r","e","n","c","e"," ","o","n","l","y">>

DefaultDisclaimer ==
  <<"F","o","r"," ","r","e","f","e","r","e","n","c","e"," ","o","n","l","y",","," ","n","o","t",
    " ","f","i","n","a","n","c","i","a","l"," ","a","d","v","i","c","e",".">>


TypeErrorMessage ==
  <<"C","a","n","n","o","t"," ","r","e","a","d"," ","p","r","o","p","e","r","t","i","e","s"," ",
    "o","f"," ","n","u","l","l">>

(***************************************************************************)
(* generatePlanningReport (generator.ts): the report it builds.             *)
(***************************************************************************)

\* text.slice(0, 500) of the fallback outline entry.
DescriptionLimit == 500

\* text.slice(0, 1000) of the fallback content strategy.
StrategyLimit == 1000

\* a || b
OrElse(a, b) == IF Truthy(a) THEN a ELSE b

\* Array.isArray(v) ? v : []
ListOrEmpty(v) == IF IsArray(v) THEN v ELSE JArray(<<>>)

DefaultTitle(kw) == JString(kw \o TitleSuffix)

\* The report returned when safeParseJSON gave nothing (lines 199-212).
\* Every field of a report is a JSON value; isFallback = FALSE stands for the
\* absent field of the other report.
FallbackReport(kw, text) ==
  [title            |-> DefaultTitle(kw),
   outline          |-> JArray(<<JObject(<<
                           [k |-> HeadingKey, v |-> JString(RawOutputHeading)],
                           [k |-> DescriptionKey,
                            v |-> JString(SliceTo(text, DescriptionLimit))],
                           [k |-> SourceKey, v |-> JString(SeoStrategy)]>>)>>),
   complianceNotes  |-> JArray(<<JString(DefaultComplianceNote)>>),
   contentStrategy  |-> JString(SliceTo(text, StrategyLimit)),
   riskWarnings     |-> JArray(<<JString(DefaultRiskWarning)>>),
   disclaimer       |-> JString(DefaultDisclaimer),
   isFallback       |-> TRUE]

\* The report built from a parsed value (lines 216-223).
ParsedReport(kw, p) ==
  [title            |-> OrElse(Get(p, TitleKey), DefaultTitle(kw)),
   outline          |-> ListOrEmpty(Get(p, OutlineKey)),
   complianceNotes  |-> ListOrEmpty(Get(p, ComplianceNotesKey)),
   contentStrategy  |-> OrElse(Get(p, ContentStrategyKey), JString(<<>>)),
   riskWarnings     |-> ListOrEmpty(Get(p, RiskWarningsKey)),
   disclaimer       |-> OrElse(Get(p, DisclaimerKey), JString(DefaultDisclaimer)),
   isFallback       |-> FALSE]

\* What a failed call throws: an Error with a message, or a value that is no
\* Error (isError = FALSE; its text is never read by the handler).
Thrown(isError, message) == [isError |-> isError, message |-> message]

\* Reading a property of null or undefined throws a TypeError.
CanRead(v) == v.t \notin {"null", "undefined"}

Returns(r) == [threw |-> FALSE, report |-> r, error |-> Thrown(FALSE, <<>>)]

Throws(e) == [threw |-> TRUE, report |-> FallbackReport(<<>>, <<>>), error |-> e]

\* AfterParse without the check of the parse result.
AfterParseUnguarded(kw, text, parsed) ==
  IF ~CanRead(parsed) THEN Throws(Thrown(TRUE, TypeErrorMessage))
  ELSE Returns(ParsedReport(kw, parsed))

\* AfterParse that treats a failed parse as a failure of the candidate.
AfterParseRejecting(kw, text, parsed) ==
  IF ~Truthy(parsed) THEN Throws(Thrown(TRUE, UnknownError))
  ELSE Returns(ParsedReport(kw, parsed))

\* Lines 198-223: what the try block does with the value parsed from the text.
AfterParse(kw, text, parsed) ==
  IF ~Truthy(parsed) THEN Returns(FallbackReport(kw, text))
  ELSE IF ~CanRead(parsed) THEN Throws(Thrown(TRUE, TypeErrorMessage))
  ELSE Returns(ParsedReport(kw, parsed))

\* Lines 196-223: what the try block does with the text of a resolved call.
TryBody(kw, text) == AfterParse(kw, text, safeParseJSON(text))

\* error instanceof Error ? error.message : 'Unknown error'
MessageOf(e) == IF e.isError THEN e.message ELSE UnknownError

\* error instanceof Error && error.message.includes('API key')
IsCredentialError(e) == e.isError /\ Includes(e.message, ApiKeyMarker)

\* The entry pushed for a failed candidate: name, colon, message.
ErrorEntry(modelName, e) == modelName \o EntrySeparator \o MessageOf(e)

\* errors.join('\n')
RECURSIVE JoinLines(_)
JoinLines(lines) ==
  IF lines = <<>> THEN <<>>
  ELSE IF Len(lines) = 1 THEN lines[1]
  ELSE lines[1] \o <<"\n">> \o JoinLines(Tail(lines))

\* AggregateMessage that reports the last failure only.
AggregateLastOnly(errs) ==
  AllFailedPrefix \o (IF errs = <<>> THEN <<>> ELSE errs[Len(errs)])

\* The message of the error thrown when every candidate failed.
AggregateMessage(errs) == AllFailedPrefix \o JoinLines(errs)

(***************************************************************************)
(* Inputs: keywords, the errors a model call can raise and the raw texts a  *)
(* model call can return.                                                   *)
(***************************************************************************)

Keywords == {
  <<"l","o","a","n">>,
  <<"r","a","t","e">>}

KeyNotValid ==
  <<"A","P","I"," ","k","e","y"," ","n","o","t"," ","v","a","l","i","d">>

QuotaExceeded ==
  <<"4","2","9"," ","q","u","o","t","a">>

Failures == {Thrown(TRUE, KeyNotValid), Thrown(TRUE, QuotaExceeded),
             Thrown(FALSE, KeyNotValid)}

\* Clean JSON.
CleanJson ==
  <<"{","\"","t","i","t","l","e","\"",":","\"","A","\"",",","\"","o","u","t","l","i","n","e",
    "\"",":","[","{","\"","h","e","a","d","i","n","g","\"",":","\"","H","\"",",","\"","d","e",
    "s","c","r","i","p","t","i","o","n","\"",":","\"","D","\"",",","\"","s","o","u","r","c","e",
    "\"",":","\"","c","o","m","p","l","i","a","n","c","e","\"","}","]",",","\"","c","o","m","p",
    "l","i","a","n","c","e","N","o","t","e","s","\"",":","[","\"","c","\"","]",",","\"","d","i",
    "s","c","l","a","i","m","e","r","\"",":","\"","d","\"","}">>

\* JSON inside a fenced block.
FencedJson ==
  <<"BQ","BQ","BQ","j","s","o","n","\n","{","\"","t","i","t","l","e","\"",":","\"","A","\"",",",
    "\"","o","u","t","l","i","n","e","\"",":","[","]","}","\n","BQ","BQ","BQ">>

\* JSON with trailing commas.
TrailingCommas ==
  <<"{","\"","t","i","t","l","e","\"",":","\"","A","\"",",","\"","o","u","t","l","i","n","e",
    "\"",":","[","{","\"","h","e","a","d","i","n","g","\"",":","\"","H","\"","}",",","]",",","}">>

\* JSON with a raw line break inside a string value.
NewlineInString ==
  <<"{","\"","t","i","t","l","e","\"",":","\"","A","\n","B","\"","}">>

\* JSON cut in the middle of its outline array.
TruncatedOutline ==
  <<"{","\"","t","i","t","l","e","\"",":","\"","A","\"",",","\"","o","u","t","l","i","n","e",
    "\"",":","[","{","\"","h","e","a","d","i","n","g","\"",":","\"","H","1","\"","}",",","{",
    "\"","h","e","a","d","i","n","g","\"",":","\"","H","2","\"","}",",","{","\"","h","e","a">>

\* Prose without JSON.
Prose ==
  <<"S","o","r","r","y",","," ","I"," ","c","a","n","n","o","t",".">>

\* The JSON literal null.
NullText ==
  <<"n","u","l","l">>

\* A fenced null followed by a JSON object.
FencedNullThenObject ==
  <<"BQ","BQ","BQ","j","s","o","n","\n","n","u","l","l","\n","BQ","BQ","BQ","{","\"","t","i","t","l",
    "e","\"",":","\"","A","\"","}">>

\* A JSON number.
NumberText ==
  <<"7">>

\* An object without a title whose outline is no list.
NoTitle ==
  <<"{","\"","o","u","t","l","i","n","e","\"",":","\"","x","\"","}">>

\* An object whose title is a number.
TitleNumber ==
  <<"{","\"","t","i","t","l","e","\"",":","5","}">>

\* A fenced block that is no JSON, then an object with a trailing comma.
FencedProseThenObject ==
  <<"BQ","BQ","BQ","j","s","o","n","\n","n","o","p","e","\n","BQ","BQ","BQ"," ","{","\"","t","i","t",
    "l","e","\"",":","\"","A","\"",",","}">>

\* A fenced block that is no JSON, then an object without a title whose
\* outline is no list, with a trailing comma.
FencedProseThenUntitled ==
  <<"BQ","BQ","BQ","j","s","o","n","\n","n","o","p","e","\n","BQ","BQ","BQ"," ","{","\"","o","u","t",
    "l","i","n","e","\"",":","\"","x","\"",",","}">>

\* The empty text.
EmptyText ==
  <<>>

RECURSIVE Repeat(_, _)
Repeat(s, n) == IF n = 0 THEN <<>> ELSE s \o Repeat(s, n - 1)

\* Prose longer than both slice limits of the fallback report.
LongProse == Repeat(<<"n", "o", " ", "j", "s", "o", "n", ".">>, 130)

RawTexts == {CleanJson, FencedJson, TrailingCommas, NewlineInString, TruncatedOutline, Prose,
             NullText, FencedNullThenObject, NumberText, NoTitle, TitleNumber, FencedProseThenObject,
             FencedProseThenUntitled, EmptyText, LongProse}

(***************************************************************************)
(* generatePlanningReport (generator.ts): one call as a state machine.      *)
(***************************************************************************)

VARIABLES
  apiKeySet,   \* process.env.GEMINI_API_KEY is set
  keyword,     \* the keyword argument
  gpc,         \* where the call stands: entry, loop, awaiting, returned, threw
  gi,          \* position of the for loop in MODEL_FALLBACKS
  errors,      \* the errors array
  failures,    \* what each catch block caught, in order (history)
  calls,       \* the candidates whose generateContent was called, in order (history)
  inflight,    \* generateContent calls issued and not yet completed
  texts,       \* the raw texts of the calls that resolved, in order (history)
  result       \* what the call returned or threw

genVars == <<apiKeySet, keyword, gpc, gi, errors, failures, calls, inflight, texts, result>>

VARIABLES
  qdrantUrl,        \* QDRANT_URL is set
  qdrantApiKey,     \* QDRANT_API_KEY is set
  collection,       \* the remote collection seo_manual: dimension and point ids
  stores,           \* the vector store instances constructed so far, in order
  vectorStore,      \* ragPipeline.vectorStore: an index of stores, 0 for null
  isInitialized,    \* ragPipeline.isInitialized
  manualLoaded,     \* the manualLoaded flag of each route module
  req               \* the requests: route, position, locals and history

ragVars == <<qdrantUrl, qdrantApiKey, collection, stores, vectorStore, isInitialized, manualLoaded, req>>

VARIABLES
  memEntries,  \* InMemoryVectorStore.entries of an in-memory store
  qdPoints,    \* the points of the collection behind a Qdrant store
  qdSize,      \* QdrantVectorStore._size of that store
  upserts,     \* the upserts made on both stores, in order (history)
  retrieved    \* what the last call, if it was a retrieve, was given and returned

idxVars == <<memEntries, qdPoints, qdSize, upserts, retrieved>>

VARIABLES
  corpus,      \* the text given to chunkManualText
  blocks,      \* the number of blocks the text was put together from
  cpc,         \* building the text, or chunked
  chunks       \* what chunkManualText returned

chunkVars == <<corpus, blocks, cpc, chunks>>

VARIABLES
  vecEntries,  \* InMemoryVectorStore.entries, with the vectors themselves
  vecUpserted, \* the entry of the last upsert on that store
  vecSearched  \* the last search made since: its query, topK and results

vecVars == <<vecEntries, vecUpserted, vecSearched>>

VARIABLES
  serpData,    \* the data analyzeSERP works on
  spc,         \* where the analyzeSERP call stands: entry, loop, awaiting, returned, threw
  gapIndex,    \* position of the for loop of generateContentGaps in MODEL_FALLBACKS
  gapErrors,   \* the errors array of generateContentGaps
  attempts,    \* what each candidate called so far gave, in order (history)
  progress,    \* the agents onProgress was called for, in order (history)
  gapResult,   \* what generateContentGaps returned or threw
  serpResult   \* what analyzeSERP returned or threw

gapVars == <<serpData, spc, gapIndex, gapErrors, attempts, progress, gapResult, serpResult>>

VARIABLES
  skills,      \* SkillRegistry.skills: the entries of the Map, in insertion order
  registered,  \* the skills register was called with, in order (history)
  executed     \* the last execute call: its name, the skill it ran, the register calls before it

regVars == <<skills, registered, executed>>

VARIABLES
  hpc,              \* where the start callback stands: idle, serp, ensure, retrieve, llm, ended
  streamKeyword,    \* the trimmed keyword of the request
  events,           \* the events enqueued on the controller, in order
  completed,        \* the steps whose awaited call resolved, in order (history)
  closeCalls,       \* the calls of controller.close() made so far
  controllerClosed, \* the controller was closed
  typeErrors        \* the TypeErrors thrown by calls on the closed controller

sseVars == <<hpc, streamKeyword, events, completed, closeCalls, controllerClosed, typeErrors>>

vars == <<genVars, ragVars, idxVars, chunkVars, vecVars, gapVars, regVars, sseVars>>

NoResult == [kind |-> "none"]

ReturnedReport(r) == [kind |-> "report", report |-> r]

ThrownError(message) == [kind |-> "error", message |-> message]

(***************************************************************************)
(* The retriever (pipeline.ts) and the routes that initialize it: state.    *)
(***************************************************************************)

\* Chunks that chunkManualText makes of data/Manual.txt.
NumChunks == 2

\* The two requests of a run: a first caller of ensureRAGInitialized and a
\* second one, which may arrive at any moment of the first one's progress.
Requests == {1, 2}

\* The chunk ids, in the order of the chunks array.
Chunks == 1..NumChunks

\* The route modules, each with a manualLoaded flag and an ensureRAGInitialized
\* of its own: /api/analyze, /api/analyze/stream, /api/pipeline.
Routes == {"analyze", "stream", "pipeline"}

\* The remote collection does not exist.
Absent == [exists |-> FALSE, dim |-> "none", distance |-> "none", points |-> {}]

\* The remote collection exists; dim is "D" (VECTOR_DIM), "other" or
\* "unreported" (the service reports no vector size). Its distance is the one
\* createCollection is given (pipeline.ts 81).
Present(dim, points) ==
  [exists |-> TRUE, dim |-> dim, distance |-> "Cosine", points |-> points]

\* new InMemoryVectorStore(): no entries.
NewInMemory == [type |-> "In-Memory", entries |-> {}, size |-> 0]

\* A QdrantVectorStore whose _size is n.
NewQdrant(n) == [type |-> "Qdrant Cloud", entries |-> {}, size |-> n]

\* What a request holds of initialize before initialize has returned to it.
NotReturned == [chunksStored |-> 0, storeType |-> "Not returned"]

\* A request that has not reached ensureRAGInitialized yet.
\*   pc: idle, reading, creating, embedding, upserting, ready, failed
\*   k: the chunk the loop of initialize is at, 0 before the loop; it is also
\*   the number of getEmbedding calls the request has made
\*   successCount, target: locals (target is the store whose upsert is awaited)
\*   afterInit: isInitialized held when the request evaluated the guard
\*   passed: the guard let the request through to readFile and initialize
\*   ensure: what became of ensureCollection in the request's createVectorStore:
\*   none (not there yet), skipped (no client call was made), ok, failed
\*   created: the store that createVectorStore returned, an index of stores
\*   embedFailed: some getEmbedding of the request's chunk loop threw (history)
\*   embedsInFlight, upsertsInFlight: calls of the chunk loop issued and not
\*   completed; settled: chunks whose iteration of the loop is over
\*   returned: what initialize returned to the request
\*   rpc: the position in retrieve: none (not called), rejected, embedding,
\*   searching, returned, failed
\*   sawInitialized, sawSize: what the guard of retrieve read
\*   queryEmbeds, searches: the getEmbedding and search calls retrieve made
\*   searched: the store that was searched, an index of stores
IdleRequest ==
  [route |-> "analyze", pc |-> "idle", k |-> 0, successCount |-> 0, target |-> 0,
   afterInit |-> FALSE, passed |-> FALSE,
   ensure |-> "none", created |-> 0, embedFailed |-> FALSE,
   embedsInFlight |-> 0, upsertsInFlight |-> 0, settled |-> 0,
   returned |-> NotReturned,
   rpc |-> "none", sawInitialized |-> FALSE, sawSize |-> 0,
   queryEmbeds |-> 0, searches |-> 0, searched |-> 0]

\* The retriever of a fresh process (pipeline.ts 324-325, route.ts 16).
RagStart ==
  /\ stores = <<>>
  /\ vectorStore = 0
  /\ isInitialized = FALSE
  /\ manualLoaded = [rt \in Routes |-> FALSE]
  /\ req = [r \in Requests |-> IdleRequest]

\* The retriever when only the generator is studied.
RagQuiet ==
  /\ qdrantUrl = FALSE
  /\ qdrantApiKey = FALSE
  /\ collection = Absent
  /\ RagStart

\* No retrieve has returned: the last call was none or an upsert.
NotRetrieved ==
  [variant |-> "none", topK |-> 0, candidates |-> <<>>,
   docs |-> <<>>, skipped |-> <<>>, threshold |-> 0]

\* Two new stores, one of each variant (pipeline.ts 54, 159), no call made.
IdxStart ==
  /\ memEntries = <<>>
  /\ qdPoints = <<>>
  /\ qdSize = 0
  /\ upserts = <<>>
  /\ retrieved = NotRetrieved

\* chunkManualText is not called.
ChunkStart ==
  /\ corpus = <<>>
  /\ blocks = 0
  /\ cpc = "building"
  /\ chunks = <<>>

NoUpsert == [id |-> <<>>, vector |-> <<>>, rev |-> 0]

NotSearched == [called |-> FALSE, query |-> <<>>, topK |-> 0, results |-> <<>>]

\* A new in-memory store on which nothing was called.
VecStart ==
  /\ vecEntries = <<>>
  /\ vecUpserted = NoUpsert
  /\ vecSearched = NotSearched

(***************************************************************************)
(* The skills and the stream handler before anything is called on them.     *)
(***************************************************************************)

NoGapResult == [kind |-> "none", gaps |-> <<>>, analysisMethod |-> <<>>, message |-> <<>>]

\* generateContentGaps returned.
GapsReturned(gaps, analysisMethod) ==
  [kind |-> "gaps", gaps |-> gaps, analysisMethod |-> analysisMethod, message |-> <<>>]

\* generateContentGaps threw an Error with that message.
GapsThrew(message) ==
  [kind |-> "error", gaps |-> <<>>, analysisMethod |-> <<>>, message |-> message]

NoSerpResult == [kind |-> "none", contentGaps |-> <<>>, method |-> <<>>, message |-> <<>>]

\* Lines 257-268: what analyzeSERP returns, as far as the gap step decides it.
SerpReturned(contentGaps, method) ==
  [kind |-> "result", contentGaps |-> contentGaps, method |-> method, message |-> <<>>]

SerpThrew(message) ==
  [kind |-> "error", contentGaps |-> <<>>, method |-> <<>>, message |-> message]

\* What one called candidate gave: a text, or a thrown value.
Answered(modelName, text) ==
  [model |-> modelName, threw |-> FALSE, text |-> text, error |-> Thrown(FALSE, <<>>)]

Failed(modelName, e) ==
  [model |-> modelName, threw |-> TRUE, text |-> <<>>, error |-> e]

\* analyzeSERP is not called.
GapStart ==
  /\ serpData = <<>>
  /\ spc = "entry"
  /\ gapIndex = 1
  /\ gapErrors = <<>>
  /\ attempts = <<>>
  /\ progress = <<>>
  /\ gapResult = NoGapResult
  /\ serpResult = NoSerpResult

SerpAnalyzerName ==
  <<"s","e","r","p","-","a","n","a","l","y","z","e","r">>

ContentGapName ==
  <<"c","o","n","t","e","n","t","-","g","a","p","-","g","e","n","e","r","a","t","o","r">>

UnknownName ==
  <<"n","o","-","s","u","c","h","-","s","k","i","l","l">>

\* The names a skill may carry, and the names execute may be called with.
SkillNames == {SerpAnalyzerName, ContentGapName}

ExecuteNames == SkillNames \cup {UnknownName}

\* A skill object: its name, its description and its execute function (the
\* two are told apart by a version number).
Skill(name, version) == [name |-> name, description |-> version, execute |-> version]

\* Line 108: the skill registered when the module is loaded.
serpAnalyzerSkill == Skill(SerpAnalyzerName, 0)

\* The skills later register calls may bring.
Plugins == {Skill(n, v) : n \in SkillNames, v \in 1..2}

\* this.skills.has(name)
MapHas(map, name) == \E i \in 1..Len(map) : map[i].key = name

\* this.skills.get(name): the value, or undefined (written as the skill of
\* version -1, which no skill has).
MapGet(map, name) ==
  IF MapHas(map, name)
  THEN map[CHOOSE i \in 1..Len(map) : map[i].key = name].value
  ELSE Skill(<<>>, -1)

\* Map.prototype.set that keeps the value a key already has.
MapSetKeepingFirst(map, key, value) ==
  IF MapHas(map, key) THEN map
  ELSE Append(map, [key |-> key, value |-> value])

\* Map.prototype.set: the value of an existing key is replaced in place, a new
\* key is added at the end.
MapSet(map, key, value) ==
  IF MapHas(map, key)
  THEN [i \in 1..Len(map) |-> IF map[i].key = key THEN [key |-> key, value |-> value]
                                                     ELSE map[i]]
  ELSE Append(map, [key |-> key, value |-> value])

\* Lines 144-149: list(), named SkillList here (list is a parameter name above)
SkillList(map) ==
  [i \in 1..Len(map) |-> [name |-> map[i].value.name,
                          description |-> map[i].value.description]]

\* No skill: what execute runs when it throws the not-found error.
NoSkill == Skill(<<>>, -1)

NotExecuted == [called |-> FALSE, name |-> <<>>, found |-> FALSE, ran |-> NoSkill, after |-> 0]

\* Lines 160-162: the registry after the module was loaded.
RegStart ==
  /\ skills = MapSet(<<>>, serpAnalyzerSkill.name, serpAnalyzerSkill)
  /\ registered = <<serpAnalyzerSkill>>
  /\ executed = NotExecuted

\* No request was made.
SseStart ==
  /\ hpc = "idle"
  /\ streamKeyword = <<>>
  /\ events = <<>>
  /\ completed = <<>>
  /\ closeCalls = 0
  /\ controllerClosed = FALSE
  /\ typeErrors = 0

\* The generator when only the retriever is studied.
\* No call of generatePlanningReport is made.
GenIdle ==
  /\ keyword = <<>>
  /\ gpc = "entry"
  /\ gi = 1
  /\ errors = <<>>
  /\ failures = <<>>
  /\ calls = <<>>
  /\ inflight = 0
  /\ texts = <<>>
  /\ result = NoResult

GenQuiet ==
  /\ apiKeySet = TRUE
  /\ GenIdle

GenInit ==
  /\ apiKeySet \in BOOLEAN
  /\ keyword \in Keywords
  /\ gpc = "entry"
  /\ gi = 1
  /\ errors = <<>>
  /\ failures = <<>>
  /\ calls = <<>>
  /\ inflight = 0
  /\ texts = <<>>
  /\ result = NoResult
  /\ RagQuiet
  /\ IdxStart
  /\ ChunkStart
  /\ VecStart
  /\ GapStart
  /\ RegStart
  /\ SseStart

\* Lines 167-174: the API key check.
Enter ==
  /\ gpc = "entry"
  /\ IF apiKeySet
     THEN gpc' = "loop" /\ result' = result
     ELSE gpc' = "threw" /\ result' = ThrownError(MissingKeyMessage)
  /\ UNCHANGED <<apiKeySet, keyword, gi, errors, failures, calls, inflight, texts, ragVars, idxVars, chunkVars, vecVars, gapVars, regVars, sseVars>>

\* Lines 176-190: the next candidate's generateContent is called and awaited.
IssueCall ==
  /\ gpc = "loop"
  /\ gi <= Len(MODEL_FALLBACKS)
  /\ calls' = Append(calls, MODEL_FALLBACKS[gi])
  /\ inflight' = inflight + 1
  /\ gpc' = "awaiting"
  /\ UNCHANGED <<apiKeySet, keyword, gi, errors, failures, texts, result, ragVars, idxVars, chunkVars, vecVars, gapVars, regVars, sseVars>>

\* CatchBlock without the credential check: every failure advances the loop.
CatchBlockNoAbort(e) ==
  /\ errors' = Append(errors, ErrorEntry(MODEL_FALLBACKS[gi], e))
  /\ failures' = Append(failures, e)
  /\ gpc' = "loop" /\ gi' = gi + 1 /\ result' = result

\* CatchBlock that forgets to record the failure.
CatchBlockUnrecorded(e) ==
  /\ errors' = errors
  /\ failures' = Append(failures, e)
  /\ IF IsCredentialError(e)
     THEN gpc' = "threw" /\ gi' = gi /\ result' = ThrownError(InvalidKeyMessage)
     ELSE gpc' = "loop" /\ gi' = gi + 1 /\ result' = result

\* CatchBlock that tries the same candidate again.
CatchBlockRetrying(e) ==
  /\ errors' = Append(errors, ErrorEntry(MODEL_FALLBACKS[gi], e))
  /\ failures' = Append(failures, e)
  /\ IF IsCredentialError(e)
     THEN gpc' = "threw" /\ gi' = gi /\ result' = ThrownError(InvalidKeyMessage)
     ELSE gpc' = "loop" /\ gi' = gi /\ result' = result

\* CatchBlock that gives up at the first failure of any kind.
CatchBlockGivingUp(e) ==
  /\ errors' = Append(errors, ErrorEntry(MODEL_FALLBACKS[gi], e))
  /\ failures' = Append(failures, e)
  /\ gi' = gi
  /\ gpc' = "threw"
  /\ result' = IF IsCredentialError(e)
               THEN ThrownError(InvalidKeyMessage)
               ELSE ThrownError(AggregateMessage(errors'))

\* Lines 224-233: the catch block, for the caught value e.
CatchBlock(e) ==
  /\ errors' = Append(errors, ErrorEntry(MODEL_FALLBACKS[gi], e))
  /\ failures' = Append(failures, e)
  /\ IF IsCredentialError(e)
     THEN gpc' = "threw" /\ gi' = gi /\ result' = ThrownError(InvalidKeyMessage)
     ELSE gpc' = "loop" /\ gi' = gi + 1 /\ result' = result

\* Lines 190-223: the awaited call resolves with a text; the rest of the try
\* block returns a report, or throws into the catch block.
CallSucceeds(text) ==
  /\ gpc = "awaiting"
  /\ inflight' = inflight - 1
  /\ texts' = Append(texts, text)
  /\ \E outcome \in {TryBody(keyword, text)} :
       IF outcome.threw
       THEN CatchBlock(outcome.error)
       ELSE /\ result' = ReturnedReport(outcome.report)
            /\ gpc' = "returned"
            /\ UNCHANGED <<gi, errors, failures>>
  /\ UNCHANGED <<apiKeySet, keyword, calls, ragVars, idxVars, chunkVars, vecVars, gapVars, regVars, sseVars>>

\* Lines 190-192, 224-233: the awaited call (or response.text()) throws e.
CallFails(e) ==
  /\ gpc = "awaiting"
  /\ inflight' = inflight - 1
  /\ CatchBlock(e)
  /\ UNCHANGED <<apiKeySet, keyword, calls, texts, ragVars, idxVars, chunkVars, vecVars, gapVars, regVars, sseVars>>

\* Line 236: the loop ran out of candidates.
Exhausted ==
  /\ gpc = "loop"
  /\ gi > Len(MODEL_FALLBACKS)
  /\ result' = ThrownError(AggregateMessage(errors))
  /\ gpc' = "threw"
  /\ UNCHANGED <<apiKeySet, keyword, gi, errors, failures, calls, inflight, texts, ragVars, idxVars, chunkVars, vecVars, gapVars, regVars, sseVars>>

GenNext ==
  \/ Enter
  \/ IssueCall
  \/ \E text \in RawTexts : CallSucceeds(text)
  \/ \E e \in Failures : CallFails(e)
  \/ Exhausted


GenSpec == GenInit /\ [][GenNext]_vars

\* Every issued call completes and the code between two awaits runs on.
GenFairSpec == GenSpec /\ WF_vars(GenNext)

(***************************************************************************)
(* ensureRAGInitialized (route.ts 18-31, and its two copies) and            *)
(* RAGPipeline.initialize (pipeline.ts 330-355), one action per stretch of  *)
(* code between two awaits.                                                 *)
(***************************************************************************)

\* The store the pipeline holds among the stores ss, none before the first
\* createVectorStore has resolved (pipeline.ts 324, 367-369).
NoStore == [type |-> "Not initialized", entries |-> {}, size |-> 0]

Held(ss) == IF vectorStore = 0 THEN NoStore ELSE ss[vectorStore]

\* A retrieve that checks only the initialized flag.
RetrieveCallUnsized(rec, initialized, held) ==
  IF ~initialized
  THEN [rec EXCEPT !.rpc = "rejected", !.sawInitialized = initialized,
                   !.sawSize = held.size]
  ELSE [rec EXCEPT !.rpc = "embedding", !.sawInitialized = initialized,
                   !.sawSize = held.size, !.queryEmbeds = @ + 1]

\* The route calls retrieve in the turn in which ensureRAGInitialized returned
\* (route.ts 57-58). The guard of retrieve (pipeline.ts 374-381) throws the
\* precondition error, or getEmbedding is called for the query. rec is the
\* request, initialized the flag and held the store of the pipeline.
RetrieveCall(rec, initialized, held) ==
  IF ~initialized \/ held = NoStore \/ held.size = 0
  THEN [rec EXCEPT !.rpc = "rejected", !.sawInitialized = initialized,
                   !.sawSize = held.size]
  ELSE [rec EXCEPT !.rpc = "embedding", !.sawInitialized = initialized,
                   !.sawSize = held.size, !.queryEmbeds = @ + 1]

\* The guard of ensureRAGInitialized, as the module of route rt evaluates it.
AlreadyInitialized(rt) == manualLoaded[rt] /\ isInitialized

\* The initial states of the remote service.
Collections ==
  {Absent, Present("D", Chunks), Present("other", {}), Present("unreported", {})}

RagInit ==
  /\ qdrantUrl \in BOOLEAN
  /\ qdrantApiKey \in BOOLEAN
  /\ collection \in (IF qdrantUrl /\ qdrantApiKey THEN Collections ELSE {Absent})
  /\ RagStart
  /\ apiKeySet \in BOOLEAN
  /\ GenIdle
  /\ IdxStart
  /\ ChunkStart
  /\ VecStart
  /\ GapStart
  /\ RegStart
  /\ SseStart

\* A request on route rt reaches ensureRAGInitialized: the guard, then readFile.
Arrive(r, rt) ==
  /\ req[r].pc = "idle"
  /\ req' = [req EXCEPT ![r] =
               IF AlreadyInitialized(rt)
               THEN RetrieveCall([@ EXCEPT !.route = rt, !.afterInit = isInitialized,
                                           !.passed = FALSE, !.pc = "ready"],
                                 isInitialized, Held(stores))
               ELSE [@ EXCEPT !.route = rt, !.afterInit = isInitialized,
                              !.passed = TRUE, !.pc = "reading"]]
  /\ UNCHANGED <<qdrantUrl, qdrantApiKey, collection, stores, vectorStore, isInitialized,
                 manualLoaded, genVars, idxVars, chunkVars, vecVars, gapVars, regVars, sseVars>>

\* initialize with a guard of its own: it returns at once when isInitialized.
ReadDoneGuarded(r) ==
  /\ req[r].pc = "reading"
  /\ req' = [req EXCEPT ![r] =
               IF isInitialized
               THEN RetrieveCall([@ EXCEPT !.pc = "ready"], isInitialized, Held(stores))
               ELSE [@ EXCEPT !.pc = "creating"]]
  /\ manualLoaded' = IF isInitialized
                     THEN [manualLoaded EXCEPT ![req[r].route] = TRUE]
                     ELSE manualLoaded
  /\ UNCHANGED <<qdrantUrl, qdrantApiKey, collection, stores, vectorStore, isInitialized,
                 genVars, idxVars, chunkVars, vecVars, gapVars, regVars, sseVars>>

\* readFile resolves; initialize is called and awaits createVectorStore.
ReadDone(r) ==
  /\ req[r].pc = "reading"
  /\ req' = [req EXCEPT ![r].pc = "creating"]
  /\ UNCHANGED <<qdrantUrl, qdrantApiKey, collection, stores, vectorStore, isInitialized,
                 manualLoaded, genVars, idxVars, chunkVars, vecVars, gapVars, regVars, sseVars>>

\* ensureCollection (pipeline.ts 61-87) when no call of it fails: a collection
\* whose reported dimension differs from VECTOR_DIM is deleted and created
\* anew, an absent one is created, any other one is kept.
EnsuredCollection(c) ==
  IF c.exists /\ c.dim \in {"D", "unreported"} THEN c ELSE Present("D", {})

\* The _size a QdrantVectorStore has after ensureCollection on collection c.
EnsuredSize(c) ==
  IF c.exists /\ c.dim \in {"D", "unreported"} THEN Cardinality(c.points) ELSE 0

\* readFile rejects: ensureRAGInitialized throws (route.ts 23, 27-30).
ReadFails(r) ==
  /\ req[r].pc = "reading"
  /\ req' = [req EXCEPT ![r].pc = "failed"]
  /\ UNCHANGED <<qdrantUrl, qdrantApiKey, collection, stores, vectorStore, isInitialized,
                 manualLoaded, genVars, idxVars, chunkVars, vecVars, gapVars, regVars, sseVars>>

\* Both credentials are set (pipeline.ts 300-303).
QdrantConfigured == qdrantUrl /\ qdrantApiKey

\* The client calls ensureCollection makes on collection c when none of them
\* fails, in order (pipeline.ts 63-82).
EnsureCalls(c) ==
  IF ~c.exists THEN <<"getCollections", "createCollection">>
  ELSE IF c.dim = "other"
  THEN <<"getCollections", "getCollection", "deleteCollection", "createCollection">>
  ELSE <<"getCollections", "getCollection">>

\* The collection after ensureCollection threw at its call number failAt: a
\* deleteCollection that succeeded before it has removed the collection.
AfterFailedEnsure(c, failAt) ==
  IF \E i \in 1..(failAt - 1) : EnsureCalls(c)[i] = "deleteCollection" THEN Absent ELSE c

\* initialize returns (pipeline.ts 354): the size and type of the store the
\* pipeline holds at that moment.
ReturnOf(store) == [chunksStored |-> store.size, storeType |-> store.type]

\* A chunk loop that gives up at the first chunk that was not stored.
AfterChunkAborting(r, after) ==
  IF after.successCount < after.k
  THEN /\ req' = [req EXCEPT ![r] = [after EXCEPT !.settled = @ + 1, !.pc = "failed"]]
       /\ UNCHANGED <<isInitialized, manualLoaded>>
  ELSE IF after.k < NumChunks
  THEN /\ req' = [req EXCEPT ![r] =
                    [after EXCEPT !.k = @ + 1, !.settled = @ + 1,
                                  !.embedsInFlight = @ + 1, !.pc = "embedding"]]
       /\ UNCHANGED <<isInitialized, manualLoaded>>
  ELSE /\ req' = [req EXCEPT ![r] =
                    RetrieveCall([after EXCEPT !.settled = @ + 1, !.pc = "ready",
                                               !.returned = ReturnOf(stores'[vectorStore])],
                                 TRUE, Held(stores'))]
       /\ isInitialized' = TRUE
       /\ manualLoaded' = [manualLoaded EXCEPT ![after.route] = TRUE]

\* The chunk loop moves on from the iteration of chunk k, which left request r
\* as record after (pipeline.ts 338-354): the next getEmbedding is called, or
\* the loop is over and initialize throws, or sets isInitialized and returns to
\* ensureRAGInitialized, which sets manualLoaded (route.ts 25).
AfterChunk(r, after) ==
  IF after.k < NumChunks
  THEN /\ req' = [req EXCEPT ![r] =
                    [after EXCEPT !.k = @ + 1, !.settled = @ + 1,
                                  !.embedsInFlight = @ + 1, !.pc = "embedding"]]
       /\ UNCHANGED <<isInitialized, manualLoaded>>
  ELSE IF after.successCount = 0
  THEN /\ req' = [req EXCEPT ![r] = [after EXCEPT !.settled = @ + 1, !.pc = "failed"]]
       /\ UNCHANGED <<isInitialized, manualLoaded>>
  ELSE /\ req' = [req EXCEPT ![r] =
                    RetrieveCall([after EXCEPT !.settled = @ + 1, !.pc = "ready",
                                               !.returned = ReturnOf(stores'[vectorStore])],
                                 TRUE, Held(stores'))]
       /\ isInitialized' = TRUE
       /\ manualLoaded' = [manualLoaded EXCEPT ![after.route] = TRUE]

\* createVectorStore resolves (pipeline.ts 299-317, 332-340). With both
\* credentials it constructs a Qdrant store and awaits ensureCollection, whose
\* calls are taken in one step: none fails (failAt = 0) and the Qdrant store is
\* returned, or call number failAt throws and the catch block falls through to
\* a new in-memory store. Without them it makes no call and returns a new
\* in-memory store. this.vectorStore is assigned, the corpus is chunked and
\* getEmbedding is called for the first chunk.
StoreCreated(r, failAt) ==
  /\ req[r].pc = "creating"
  /\ failAt <= (IF QdrantConfigured THEN Len(EnsureCalls(collection)) ELSE 0)
  /\ IF QdrantConfigured /\ failAt = 0
     THEN /\ stores' = Append(stores, NewQdrant(EnsuredSize(collection)))
          /\ collection' = EnsuredCollection(collection)
     ELSE /\ stores' = Append(stores, NewInMemory)
          /\ collection' = AfterFailedEnsure(collection, failAt)
  /\ vectorStore' = Len(stores) + 1
  /\ req' = [req EXCEPT ![r] =
               [@ EXCEPT !.k = 1, !.successCount = 0, !.pc = "embedding",
                         !.embedsInFlight = 1,
                         !.created = Len(stores) + 1,
                         !.ensure = IF ~QdrantConfigured THEN "skipped"
                                    ELSE IF failAt = 0 THEN "ok" ELSE "failed"]]
  /\ UNCHANGED <<qdrantUrl, qdrantApiKey, isInitialized, manualLoaded, genVars, idxVars, chunkVars, vecVars, gapVars, regVars, sseVars>>

\* InMemoryVectorStore.upsert (pipeline.ts 161-168): the entry of that id is
\* overwritten or added; size is the number of entries.
InMemoryUpsert(store, id) ==
  [store EXCEPT !.entries = @ \cup {id},
                !.size = Cardinality(store.entries \cup {id})]

\* A chunk loop that does not await the Qdrant upsert: it calls getEmbedding
\* for the next chunk while the upsert is in flight.
EmbedDonePipelined(r, ok) ==
  /\ req[r].pc = "embedding"
  /\ ok => apiKeySet
  /\ IF ~ok
     THEN /\ UNCHANGED stores
          /\ AfterChunk(r, [req[r] EXCEPT !.embedsInFlight = @ - 1, !.embedFailed = TRUE])
     ELSE IF stores[vectorStore].type = "In-Memory"
     THEN /\ stores' = [stores EXCEPT ![vectorStore] = InMemoryUpsert(@, req[r].k)]
          /\ AfterChunk(r, [req[r] EXCEPT !.embedsInFlight = @ - 1, !.successCount = @ + 1])
     ELSE IF req[r].k < NumChunks
     THEN /\ req' = [req EXCEPT ![r] =
                       [@ EXCEPT !.upsertsInFlight = @ + 1, !.k = @ + 1,
                                 !.target = vectorStore]]
          /\ UNCHANGED <<stores, isInitialized, manualLoaded>>
     ELSE /\ req' = [req EXCEPT ![r] =
                       [@ EXCEPT !.embedsInFlight = @ - 1, !.upsertsInFlight = @ + 1,
                                 !.target = vectorStore, !.pc = "upserting"]]
          /\ UNCHANGED <<stores, isInitialized, manualLoaded>>
  /\ UNCHANGED <<qdrantUrl, qdrantApiKey, collection, vectorStore, genVars, idxVars, chunkVars, vecVars, gapVars, regVars, sseVars>>

\* getEmbedding resolves (ok) or throws (pipeline.ts 340-345). On success
\* this.vectorStore.upsert is called on the store the pipeline holds now. An
\* in-memory upsert completes without leaving the event-loop turn, so the
\* success is counted and the loop moves on; a Qdrant upsert is a request to
\* the service that is awaited. getEmbedding calls getGenAI, which throws when
\* GEMINI_API_KEY is not set (pipeline.ts 208-224): without the key it never
\* resolves.
EmbedDone(r, ok) ==
  /\ req[r].pc = "embedding"
  /\ ok => apiKeySet
  /\ IF ~ok
     THEN /\ UNCHANGED stores
          /\ AfterChunk(r, [req[r] EXCEPT !.embedsInFlight = @ - 1, !.embedFailed = TRUE])
     ELSE IF stores[vectorStore].type = "In-Memory"
     THEN /\ stores' = [stores EXCEPT ![vectorStore] = InMemoryUpsert(@, req[r].k)]
          /\ AfterChunk(r, [req[r] EXCEPT !.embedsInFlight = @ - 1, !.successCount = @ + 1])
     ELSE /\ req' = [req EXCEPT ![r] =
                       [@ EXCEPT !.embedsInFlight = @ - 1, !.upsertsInFlight = @ + 1,
                                 !.target = vectorStore, !.pc = "upserting"]]
          /\ UNCHANGED <<stores, isInitialized, manualLoaded>>
  /\ UNCHANGED <<qdrantUrl, qdrantApiKey, collection, vectorStore, genVars, idxVars, chunkVars, vecVars, gapVars, regVars, sseVars>>

\* The awaited Qdrant upsert resolves (ok) or throws (pipeline.ts 89-109,
\* 341-345). One that succeeded has written the point and counts it in _size.
UpsertDone(r, ok) ==
  /\ req[r].pc = "upserting"
  /\ IF ok
     THEN /\ collection' = [collection EXCEPT !.points = @ \cup {req[r].k}]
          /\ stores' = [stores EXCEPT ![req[r].target].size = @ + 1]
          /\ AfterChunk(r, [req[r] EXCEPT !.upsertsInFlight = @ - 1, !.successCount = @ + 1])
     ELSE /\ UNCHANGED <<collection, stores>>
          /\ AfterChunk(r, [req[r] EXCEPT !.upsertsInFlight = @ - 1])
  /\ UNCHANGED <<qdrantUrl, qdrantApiKey, vectorStore, genVars, idxVars, chunkVars, vecVars, gapVars, regVars, sseVars>>

\* getEmbedding of the query resolves (ok) or throws (pipeline.ts 383-384).
\* On success search is called on the store the pipeline holds now: the
\* in-memory search completes in the same turn and retrieve returns; the
\* Qdrant search is a request to the service that is awaited.
QueryEmbedded(r, ok) ==
  /\ req[r].rpc = "embedding"
  /\ ok => apiKeySet
  /\ req' = [req EXCEPT ![r] =
               IF ~ok THEN [@ EXCEPT !.rpc = "failed"]
               ELSE [@ EXCEPT !.searches = @ + 1, !.searched = vectorStore,
                              !.rpc = IF stores[vectorStore].type = "In-Memory"
                                      THEN "returned" ELSE "searching"]]
  /\ UNCHANGED <<qdrantUrl, qdrantApiKey, collection, stores, vectorStore, isInitialized,
                 manualLoaded, genVars, idxVars, chunkVars, vecVars, gapVars, regVars, sseVars>>

\* The awaited Qdrant search resolves (ok) or throws (pipeline.ts 111-130).
SearchDone(r, ok) ==
  /\ req[r].rpc = "searching"
  /\ req' = [req EXCEPT ![r].rpc = IF ok THEN "returned" ELSE "failed"]
  /\ UNCHANGED <<qdrantUrl, qdrantApiKey, collection, stores, vectorStore, isInitialized,
                 manualLoaded, genVars, idxVars, chunkVars, vecVars, gapVars, regVars, sseVars>>

RagNext ==
  \/ \E r \in Requests, rt \in Routes : Arrive(r, rt)
  \/ \E r \in Requests : ReadDone(r)
  \/ \E r \in Requests : ReadFails(r)
  \/ \E r \in Requests, failAt \in 0..4 : StoreCreated(r, failAt)
  \/ \E r \in Requests, ok \in BOOLEAN : EmbedDone(r, ok)
  \/ \E r \in Requests, ok \in BOOLEAN : UpsertDone(r, ok)
  \/ \E r \in Requests, ok \in BOOLEAN : QueryEmbedded(r, ok)
  \/ \E r \in Requests, ok \in BOOLEAN : SearchDone(r, ok)

RagSpec == RagInit /\ [][RagNext]_vars

(***************************************************************************)
(* The two vector stores (pipeline.ts 52-186) and the filter of retrieve    *)
(* (pipeline.ts 379-402), fed the same upserts and searched with one query. *)
(* A stored vector is represented by sim, its cosine similarity with the    *)
(* vector of the query in units of 1/10000, rounded down; a payload by rev, *)
(* the number of the upsert that brought it.                                *)
(***************************************************************************)

\* Upserts of a run.
MaxUpserts == 3

\* const MIN_SCORE = 0.65, in units of 1/10000.
MIN_SCORE == 6500

\* The ids chunkManualText gives its chunks (pipeline.ts 250): Manual.txt-ch0-s0,
\* Manual.txt-ch0-s1 and Manual.txt-ch1-s0, as tuples of characters.
ChunkId(chapter, section) ==
  <<"M", "a", "n", "u", "a", "l", ".", "t", "x", "t", "-", "c", "h", chapter,
    "-", "s", section>>

Ids == {ChunkId("0", "0"), ChunkId("0", "1"), ChunkId("1", "0")}

\* The similarities a stored vector may have with the query: opposite, just
\* under the threshold, at the threshold, close.
Sims == {-1204, 6496, 6500, 9000}

\* String.charCodeAt for the characters of the ids.
CharCode(ch) ==
  CASE ch = "M" -> 77 [] ch = "a" -> 97 [] ch = "n" -> 110 [] ch = "u" -> 117
    [] ch = "l" -> 108 [] ch = "." -> 46 [] ch = "t" -> 116 [] ch = "x" -> 120
    [] ch = "-" -> 45 [] ch = "c" -> 99 [] ch = "h" -> 104 [] ch = "s" -> 115
    [] ch = "0" -> 48 [] ch = "1" -> 49

\* One pass of the loop of hashId (pipeline.ts 139-141) on the 32-bit hash h,
\* kept as its two 16-bit halves <<high, low>>: ((h << 5) - h) + char, cut to
\* 32 bits by hash & hash.
HashStep(h, code) ==
  <<(31 * h[1] + ((31 * h[2] + code) \div 65536)) % 65536, (31 * h[2] + code) % 65536>>

RECURSIVE HashFrom(_, _, _)
HashFrom(str, i, h) ==
  IF i > Len(str) THEN h ELSE HashFrom(str, i + 1, HashStep(h, CharCode(str[i])))

\* Math.abs of the signed 32-bit value whose halves are h.
Abs32(h) ==
  IF h[1] < 32768 THEN h
  ELSE <<(65535 - h[1] + (IF h[2] = 0 THEN 1 ELSE 0)) % 65536, (65536 - h[2]) % 65536>>

\* QdrantVectorStore.hashId (pipeline.ts 136-144): the point id of a chunk id.
HashId(str) == Abs32(HashFrom(str, 1, <<0, 0>>))

\* The index of the first element of seq from i on that has key k in its field
\* named by which ("id" or "point"), 0 when there is none (Array.findIndex).
RECURSIVE FindIndex(_, _, _, _)
FindIndex(seq, which, k, i) ==
  IF i > Len(seq) THEN 0
  ELSE IF (IF which = "id" THEN seq[i].id ELSE seq[i].point) = k THEN i
  ELSE FindIndex(seq, which, k, i + 1)

\* entry written over the element of seq at index i, or pushed when i = 0.
PutAt(seq, i, entry) == IF i = 0 THEN Append(seq, entry) ELSE [seq EXCEPT ![i] = entry]

\* InMemoryVectorStore.upsert (pipeline.ts 161-168).
MemUpsert(entries, entry) == PutAt(entries, FindIndex(entries, "id", entry.id, 1), entry)

\* What client.upsert does to the collection (pipeline.ts 91-107): the point
\* of that point id is written, replacing the one that was there.
PointUpsert(points, entry) ==
  PutAt(points, FindIndex(points, "point", entry.point, 1), entry)

\* x placed in the sorted sequence: before the first element that is not
\* greater, as a stable sort by (a, b) => b.score - a.score places an element
\* that came before its equals.
RECURSIVE InsertDesc(_, _)
InsertDesc(x, sorted) ==
  IF sorted = <<>> THEN <<x>>
  ELSE IF Head(sorted).sim > x.sim THEN <<Head(sorted)>> \o InsertDesc(x, Tail(sorted))
  ELSE <<x>> \o sorted

\* Array.prototype.sort with that comparator.
RECURSIVE SortDesc(_)
SortDesc(seq) == IF seq = <<>> THEN <<>> ELSE InsertDesc(Head(seq), SortDesc(Tail(seq)))

\* slice(0, topK).
Slice(seq, topK) == SubSeq(seq, 1, MinOf({topK, Len(seq)}))

\* An in-memory search that returns the entries in the order they are stored.
MemSearchUnsorted(entries, topK) == Slice(entries, topK)

\* InMemoryVectorStore.search (pipeline.ts 170-181).
MemSearch(entries, topK) == Slice(SortDesc(entries), topK)

\* QdrantVectorStore.search (pipeline.ts 111-130): the service answers with its
\* limit best points, best first, and the store maps them in that order.
PointSearch(points, topK) == Slice(SortDesc(points), topK)

\* Math.round(r.score * 1000) / 1000, in units of 1/10000.
Round3(sim) == ((sim + 5) \div 10) * 10

\* The document retrieve makes of search result r (pipeline.ts 387-392).
Doc(r) == [id |-> r.id, rev |-> r.rev, score |-> Round3(r.sim)]

\* The documents of the results seq, in order.
Docs(seq) == [i \in 1..Len(seq) |-> Doc(seq[i])]

\* The indices of the results r for which (r.score >= MIN_SCORE) = keep.
Passing(results, keep) == {j \in 1..Len(results) : (results[j].sim >= MIN_SCORE) = keep}

\* A filter that pushes nothing to skipped.
DocsOfPassingOnly(results, keep) ==
  IF keep THEN Docs(KeepIndices(results, Passing(results, keep))) ELSE <<>>

\* The documents of the results r with (r.score >= MIN_SCORE) = keep, in the
\* order of the results (pipeline.ts 386-399): docs for TRUE, skipped for FALSE.
DocsOf(results, keep) == Docs(KeepIndices(results, Passing(results, keep)))

\* The RetrieveResult of retrieve on the results of the search (pipeline.ts
\* 384-402).
RetrieveResult(variant, topK, results) ==
  [variant |-> variant, topK |-> topK, candidates |-> results,
   docs |-> DocsOf(results, TRUE), skipped |-> DocsOf(results, FALSE),
   threshold |-> MIN_SCORE]

IdxInit ==
  /\ IdxStart
  /\ GenQuiet
  /\ qdrantUrl = FALSE
  /\ qdrantApiKey = FALSE
  /\ collection = Absent
  /\ RagStart
  /\ ChunkStart
  /\ VecStart
  /\ GapStart
  /\ RegStart
  /\ SseStart

\* upsert(id, vector, payload) on both stores, vector of similarity sim with the
\* query (pipeline.ts 89-109, 161-168). Both calls succeed; the Qdrant store
\* counts the call in _size.
Upsert(id, sim) ==
  /\ Len(upserts) < MaxUpserts
  /\ upserts' = Append(upserts, [id |-> id, sim |-> sim])
  /\ memEntries' = MemUpsert(memEntries, [id |-> id, sim |-> sim, rev |-> Len(upserts) + 1])
  /\ qdPoints' = PointUpsert(qdPoints, [point |-> HashId(id), id |-> id, sim |-> sim,
                                        rev |-> Len(upserts) + 1])
  /\ qdSize' = qdSize + 1
  /\ retrieved' = NotRetrieved
  /\ UNCHANGED <<genVars, ragVars, chunkVars, vecVars, gapVars, regVars, sseVars>>

\* retrieve(query, topK) on an initialized pipeline that holds the in-memory
\* store (pipeline.ts 374-402).
RetrieveMem(topK) ==
  /\ Len(memEntries) > 0
  /\ retrieved' = RetrieveResult("In-Memory", topK, MemSearch(memEntries, topK))
  /\ UNCHANGED <<memEntries, qdPoints, qdSize, upserts, genVars, ragVars, chunkVars, vecVars, gapVars, regVars, sseVars>>

\* The same on a pipeline that holds the Qdrant store.
RetrieveQdrant(topK) ==
  /\ qdSize > 0
  /\ retrieved' = RetrieveResult("Qdrant Cloud", topK, PointSearch(qdPoints, topK))
  /\ UNCHANGED <<memEntries, qdPoints, qdSize, upserts, genVars, ragVars, chunkVars, vecVars, gapVars, regVars, sseVars>>

IdxNext ==
  \/ \E id \in Ids, sim \in Sims : Upsert(id, sim)
  \/ \E topK \in 1..3 : RetrieveMem(topK)
  \/ \E topK \in 1..3 : RetrieveQdrant(topK)

IdxSpec == IdxInit /\ [][IdxNext]_vars

(***************************************************************************)
(* chunkManualText (pipeline.ts 230-293).  A text is a tuple of characters; *)
(* the characters of a chapter header are written "DI" (the ordinal prefix),*)
(* "NUM" (one of the ten numerals of the character class) and "ZHANG" (the  *)
(* word chapter).                                                           *)
(***************************************************************************)

\* Blocks a corpus text is put together from.
MaxBlocks == 5

\* content.length < 10: the length under which a unit is skipped.
MinChunkLength == 10

Numerals == {"NUM"}

\* First position >= i of s whose character is not in set.
RECURSIVE SkipIn(_, _, _)
SkipIn(s, i, set) == IF At(s, i) \in set THEN SkipIn(s, i + 1, set) ELSE i

\* Position i starts a match of the chapter header pattern: the prefix, one
\* numeral or more, the word chapter.
ChapterAt(s, i) ==
  /\ At(s, i) = "DI"
  /\ At(s, i + 1) \in Numerals
  /\ At(s, SkipIn(s, i + 1, Numerals)) = "ZHANG"

\* Position i starts a match of /\d+\.\d+\s/.
SectionAt(s, i) ==
  LET dot  == SkipIn(s, i, Digits)
      stop == SkipIn(s, dot + 1, Digits)
  IN  /\ dot > i
      /\ At(s, dot) = "."
      /\ stop > dot + 1
      /\ At(s, stop) \in WhiteSpace

\* split on a lookahead: s is cut before every position of cuts; a match at
\* the first character cuts nothing. The empty string gives one empty piece.
SplitBefore(s, cuts) ==
  LET starts   == {1} \cup (cuts \ {1})
      Start(k) == CHOOSE b \in starts : Cardinality({c \in starts : c < b}) = k - 1
      n        == Cardinality(starts)
  IN  [k \in 1..n |-> SubSeq(s, Start(k), IF k = n THEN Len(s) ELSE Start(k + 1) - 1)]

SplitChapters(s) == SplitBefore(s, {i \in 1..Len(s) : ChapterAt(s, i)})

SplitSections(s) == SplitBefore(s, {i \in 1..Len(s) : SectionAt(s, i)})

\* Last position of the match of /\n\s*\n/ that starts at q, 0 when none does:
\* the last line feed of the white space that follows the line feed at q.
BlankLineEnd(s, q) ==
  LET c == {j \in (q + 1)..(SkipIn(s, q + 1, WhiteSpace) - 1) : s[j] = "\n"}
  IN  IF At(s, q) = "\n" /\ c # {} THEN MaxOf(c) ELSE 0

\* text.split(/\n\s*\n/) from position q, the current piece starting at p.
RECURSIVE SplitParagraphsFrom(_, _, _)
SplitParagraphsFrom(s, p, q) ==
  IF q > Len(s) THEN <<SubSeq(s, p, Len(s))>>
  ELSE LET e == BlankLineEnd(s, q)
       IN  IF e = 0 THEN SplitParagraphsFrom(s, p, q + 1)
           ELSE <<SubSeq(s, p, q - 1)>> \o SplitParagraphsFrom(s, e + 1, e + 1)

SplitParagraphs(s) == SplitParagraphsFrom(s, 1, 1)

\* The title of a chapter: its first line without - and =, trimmed, or the
\* default that numbers the chapter (line 240).
ChapterTitle(chapter, chapterIndex) ==
  LET trimmed == Trim(chapter)
      feed    == IndexOf(trimmed, <<"\n">>)
      line    == IF feed = 0 THEN trimmed ELSE SubSeq(trimmed, 1, feed - 1)
      title   == Trim(KeepIndices(line, {i \in 1..Len(line) : line[i] \notin {"-", "="}}))
  IN  IF title # <<>> THEN title ELSE <<"PARA", chapterIndex + 1>>

WholeText == <<"WHOLE">>

\* The sections of chapter number chapterIndex, as the units of the first
\* pass: the id parts, the chapter title and the trimmed content.
SectionUnits(chapter, chapterIndex) ==
  LET sections == SplitSections(chapter)
  IN  [j \in 1..Len(sections) |->
         [id      |-> <<"ch", chapterIndex, "s", j - 1>>,
          chapter |-> ChapterTitle(chapter, chapterIndex),
          content |-> Trim(sections[j])]]

\* The units of the chapters k.. of the list, in order.
RECURSIVE ChapterUnits(_, _)
ChapterUnits(chapters, k) ==
  IF k > Len(chapters) THEN <<>>
  ELSE SectionUnits(chapters[k], k - 1) \o ChapterUnits(chapters, k + 1)

\* Lines 245-258: the units from number k on are pushed unless too short, each
\* with the length of the list at that moment as its chunkIndex.
RECURSIVE PushSections(_, _, _)
PushSections(list, units, k) ==
  IF k > Len(units) THEN list
  ELSE PushSections(
         IF Len(units[k].content) < MinChunkLength THEN list
         ELSE Append(list, [id         |-> units[k].id,
                            content    |-> units[k].content,
                            chapter    |-> units[k].chapter,
                            chunkIndex |-> Len(list)]),
         units, k + 1)

\* Lines 263-276: the paragraphs from number k on are pushed unless too short,
\* each with its own number as its chunkIndex.
RECURSIVE PushParagraphs(_, _, _)
PushParagraphs(list, paragraphs, k) ==
  IF k > Len(paragraphs) THEN list
  ELSE PushParagraphs(
         IF Len(Trim(paragraphs[k])) < MinChunkLength THEN list
         ELSE Append(list, [id         |-> <<"p", k - 1>>,
                            content    |-> Trim(paragraphs[k]),
                            chapter    |-> WholeText,
                            chunkIndex |-> k - 1]),
         paragraphs, k + 1)

\* Lines 281-289: the chunk that holds the whole text.
FullChunk(text) ==
  [id |-> <<"full">>, content |-> Trim(text), chapter |-> WholeText, chunkIndex |-> 0]

\* Lines 280-290: the last resort, the whole text as one chunk.
LastResort(text) ==
  IF Len(Trim(text)) > 0
  THEN <<FullChunk(text)>>
  ELSE <<>>

\* The value of the first pass that gave a chunk.
FirstNonEmpty(first, second, third) ==
  IF first # <<>> THEN first ELSE IF second # <<>> THEN second ELSE third

chunkManualText(text) ==
  FirstNonEmpty(PushSections(<<>>, ChapterUnits(SplitChapters(text), 1), 1),
                PushParagraphs(<<>>, SplitParagraphs(text), 1),
                LastResort(text))

\* The blocks of the corpus texts: five letters, one letter, a blank line, a
\* section number with its space, a chapter header.
Blocks == {
  <<"a", "b", "c", "d", "e">>,
  <<"x">>,
  <<"\n", "\n">>,
  <<"1", ".", "1", " ">>,
  <<"DI", "NUM", "ZHANG">>}

\* The corpus grows by one block.
AddBlock(b) ==
  /\ cpc = "building"
  /\ blocks < MaxBlocks
  /\ corpus' = corpus \o b
  /\ blocks' = blocks + 1
  /\ UNCHANGED <<cpc, chunks, genVars, ragVars, idxVars, vecVars, gapVars, regVars, sseVars>>

\* chunkManualText(corpus) is called and returns.
Chunk ==
  /\ cpc = "building"
  /\ chunks' = chunkManualText(corpus)
  /\ cpc' = "chunked"
  /\ UNCHANGED <<corpus, blocks, genVars, ragVars, idxVars, vecVars, gapVars, regVars, sseVars>>

ChunkInit ==
  /\ ChunkStart
  /\ VecStart
  /\ GapStart
  /\ RegStart
  /\ SseStart
  /\ GenQuiet
  /\ RagQuiet
  /\ IdxStart

ChunkNext ==
  \/ \E b \in Blocks : AddBlock(b)
  \/ Chunk

ChunkSpec == ChunkInit /\ [][ChunkNext]_vars

(***************************************************************************)
(* InMemoryVectorStore with the vectors themselves (pipeline.ts 157-200).   *)
(* The vectors have integer norms, for which the floating-point square      *)
(* roots and their product are exact; a similarity is given in units of     *)
(* 1/10000.                                                                 *)
(***************************************************************************)

\* Upserts of a run on that store.
MaxVecUpserts == 2

\* The zero vector, two vectors of one direction, one orthogonal to them, one
\* at an angle, and one of another length.
Vectors == {<<0, 0>>, <<1, 0>>, <<2, 0>>, <<0, 1>>, <<3, 4>>, <<1>>}

\* The sum of a[i] * b[i] over i >= k.
RECURSIVE DotFrom(_, _, _)
DotFrom(a, b, k) == IF k > Len(a) THEN 0 ELSE a[k] * b[k] + DotFrom(a, b, k + 1)

\* Math.sqrt of the sum of squares of a.
Norm(a) == CHOOSE r \in 0..DotFrom(a, a, 1) : r * r = DotFrom(a, a, 1)

\* cosineSimilarity (pipeline.ts 188-200).
cosineSimilarity(a, b) ==
  IF Len(a) # Len(b) THEN 0
  ELSE IF Norm(a) * Norm(b) = 0 THEN 0
  ELSE (DotFrom(a, b, 1) * 10000) \div (Norm(a) * Norm(b))

\* Lines 173-176: the payload of every entry with its score.
Scores(entries, query) ==
  [i \in 1..Len(entries) |->
     [id  |-> entries[i].id,
      rev |-> entries[i].rev,
      sim |-> cosineSimilarity(query, entries[i].vector)]]

\* InMemoryVectorStore.search (pipeline.ts 170-181).
VecSearchResults(entries, query, topK) == MemSearch(Scores(entries, query), topK)

\* upsert(id, vector, payload): the payload is numbered by the upsert.
VecUpsert(id, vector) ==
  /\ vecUpserted.rev < MaxVecUpserts
  /\ vecUpserted' = [id |-> id, vector |-> vector, rev |-> vecUpserted.rev + 1]
  /\ vecEntries' = MemUpsert(vecEntries, vecUpserted')
  /\ vecSearched' = NotSearched
  /\ UNCHANGED <<genVars, ragVars, idxVars, chunkVars, gapVars, regVars, sseVars>>

\* search(query, topK).
VecSearch(query, topK) ==
  /\ vecSearched' = [called |-> TRUE, query |-> query, topK |-> topK,
                     results |-> VecSearchResults(vecEntries, query, topK)]
  /\ UNCHANGED <<vecEntries, vecUpserted, genVars, ragVars, idxVars, chunkVars, gapVars, regVars, sseVars>>

VecInit ==
  /\ VecStart
  /\ ChunkStart
  /\ GapStart
  /\ RegStart
  /\ SseStart
  /\ GenQuiet
  /\ RagQuiet
  /\ IdxStart

VecNext ==
  \/ \E id \in Ids, vector \in Vectors : VecUpsert(id, vector)
  \/ \E query \in Vectors, topK \in 1..2 : VecSearch(query, topK)

VecSpec == VecInit /\ [][VecNext]_vars

(***************************************************************************)
(* The content gap generator (contentGapGenerator.ts) and the SERP analyzer *)
(* that calls it (serpAnalyzer.ts): literals and pure functions.            *)
(***************************************************************************)

TopicKey ==
  <<"t","o","p","i","c">>

ReasoningKey ==
  <<"r","e","a","s","o","n","i","n","g">>

PriorityKey ==
  <<"p","r","i","o","r","i","t","y">>

GapsKey ==
  <<"g","a","p","s">>

High ==
  <<"h","i","g","h">>

Medium ==
  <<"m","e","d","i","u","m">>

Low ==
  <<"l","o","w">>

\* The values a priority may take (contentGapGenerator.ts 191, 201).
Priorities == {High, Medium, Low}

\* .slice(0, 50) of a topic.
TopicLimit == 50

\* .slice(0, 150) of a reasoning.
ReasoningLimit == 150

\* The decimal digits of a natural number.
RECURSIVE DigitsOf(_)
DigitsOf(n) ==
  LET d == <<"0", "1", "2", "3", "4", "5", "6", "7", "8", "9">>[(n % 10) + 1]
  IN  IF n < 10 THEN <<d>> ELSE Append(DigitsOf(n \div 10), d)

ObjectText ==
  <<"[","o","b","j","e","c","t"," ","O","b","j","e","c","t","]">>

\* String(v) of a parsed value; the elements of an array are joined by commas,
\* null giving the empty string.
RECURSIVE StringOf(_)
RECURSIVE JoinElements(_, _)
JoinElements(a, k) ==
  IF k > Len(a) THEN <<>>
  ELSE (IF k > 1 THEN <<",">> ELSE <<>>)
       \o (IF a[k].t \in {"null", "undefined"} THEN <<>> ELSE StringOf(a[k]))
       \o JoinElements(a, k + 1)

StringOf(v) ==
  CASE v.t = "string" -> v.s
    [] v.t = "number" -> IF v.n < 0 THEN <<"-">> \o DigitsOf(0 - v.n) ELSE DigitsOf(v.n)
    [] v.t = "array"  -> JoinElements(v.a, 1)
    [] v.t = "object" -> ObjectText
    [] v.t = "false"  -> <<"f", "a", "l", "s", "e">>
    [] OTHER -> <<"t", "r", "u", "e">>

\* One content gap.
Gap(topic, reasoning, priority) ==
  [topic |-> topic, reasoning |-> reasoning, priority |-> priority]

\* Lines 187-194: the filter and the map of extractGapsArray on one item.
KeepsItem(item) ==
  /\ Truthy(Get(item, TopicKey))
  /\ Truthy(Get(item, ReasoningKey))
  /\ Truthy(Get(item, PriorityKey))

GapOfItem(item) ==
  LET p == Get(item, PriorityKey)
  IN  Gap(SliceTo(StringOf(Get(item, TopicKey)), TopicLimit),
          SliceTo(StringOf(Get(item, ReasoningKey)), ReasoningLimit),
          IF p.t = "string" /\ p.s \in Priorities THEN p.s ELSE Medium)

\* extractGapsArray(parsed): the array itself or its gaps member, filtered
\* and normalised.
extractGapsArray(parsed) ==
  LET raw  == IF IsArray(parsed) THEN parsed.a
              ELSE IF IsArray(Get(parsed, GapsKey)) THEN Get(parsed, GapsKey).a
              ELSE <<>>
      kept == SelectSeq(raw, KeepsItem)
  IN  [i \in 1..Len(kept) |-> GapOfItem(kept[i])]

\* The literal p after optional white space from position i: the position
\* after it, or 0 when it is not there (or when i is 0).
Lit(s, i, p) ==
  IF i # 0 /\ IsPrefixAt(s, p, SkipSpace(s, i)) THEN SkipSpace(s, i) + Len(p) ELSE 0

\* One or more characters other than a quote from position i up to a quote:
\* the position of that quote, or 0.
UpToQuote(s, i) ==
  LET q == IF i = 0 THEN 0 ELSE IndexOfFrom(s, <<"\"">>, i)
  IN  IF q > i THEN q ELSE 0

\* A quoted key, a colon and an opening quote from position i: the position
\* after the opening quote, or 0.
KeyThenQuote(s, i, key) ==
  Lit(s, Lit(s, Lit(s, i, <<"\"">> \o key \o <<"\"">>), <<":">>), <<"\"">>)

\* One of the three priorities and a closing quote at position i: the
\* priority and the position after the quote.
PriorityAt(s, i) ==
  LET c == {p \in Priorities : i # 0 /\ IsPrefixAt(s, p \o <<"\"">>, i)}
  IN  IF c = {} THEN [p |-> <<>>, next |-> 0]
      ELSE LET p == CHOOSE x \in c : TRUE IN [p |-> p, next |-> i + Len(p) + 1]

\* Line 201: a match of the pattern of a complete gap object starting at
\* position i (members topic, reasoning and priority, in that order).
GapMatchAt(s, i) ==
  LET t1 == KeyThenQuote(s, IF At(s, i) = "{" THEN i + 1 ELSE 0, TopicKey)
      t2 == UpToQuote(s, t1)
      r1 == KeyThenQuote(s, Lit(s, IF t2 = 0 THEN 0 ELSE t2 + 1, <<",">>), ReasoningKey)
      r2 == UpToQuote(s, r1)
      p1 == KeyThenQuote(s, Lit(s, IF r2 = 0 THEN 0 ELSE r2 + 1, <<",">>), PriorityKey)
      p  == PriorityAt(s, p1)
      e  == Lit(s, p.next, <<"}">>)
  IN  IF e = 0 THEN [found |-> FALSE, gap |-> Gap(<<>>, <<>>, <<>>), next |-> 0]
      ELSE [found |-> TRUE,
            gap   |-> Gap(SliceTo(SubSeq(s, t1, t2 - 1), TopicLimit),
                          SliceTo(SubSeq(s, r1, r2 - 1), ReasoningLimit), p.p),
            next  |-> e]

\* Lines 203-209: the matches from position i on, left to right, each search
\* resuming where the last match ended.
RECURSIVE RecoverFrom(_, _, _)
RecoverFrom(s, i, acc) ==
  LET c == {k \in i..Len(s) : GapMatchAt(s, k).found}
  IN  IF c = {} THEN acc
      ELSE \* the leftmost match
           LET m == GapMatchAt(s, MinOf(c))
           IN  RecoverFrom(s, m.next, Append(acc, m.gap))

\* recoverPartialGaps(json)
recoverPartialGaps(json) == RecoverFrom(json, 1, <<>>)

\* Lines 139-146: the text that parseGapResponse parses.
GapJson(text) ==
  LET trimmed   == Trim(text)
      codeMatch == FenceMatch(trimmed)
  IN  ReplaceTabs(ReplaceLineBreaks(
        IF codeMatch.found THEN Trim(codeMatch.g1) ELSE trimmed))

\* Lines 157-170: the catch block of the first parse.
AfterFailedParse(json) ==
  LET parsed == JSONParse(DropCommaBefore(DropCommaBefore(json, "]"), "}"))
      arr    == IF parsed.ok THEN extractGapsArray(parsed.v) ELSE <<>>
  IN  IF arr # <<>> THEN arr ELSE recoverPartialGaps(json)

\* parseGapResponse(text)
parseGapResponse(text) ==
  LET json   == GapJson(text)
      parsed == JSONParse(json)
  IN  IF parsed.ok THEN extractGapsArray(parsed.v) ELSE AfterFailedParse(json)

\* The analysisMethod of a result found by a candidate.

DynamicAnalysis ==
  <<"L","L","M"," ","d","y","n","a","m","i","c"," ","a","n","a","l","y","s","i","s"," ","(">>

LlmMethod(modelName) == DynamicAnalysis \o modelName \o <<")">>

\* The analysisMethod when every candidate was tried in vain (line 129).
AnalysisFailed ==
  <<"a","n","a","l","y","s","i","s"," ","f","a","i","l","e","d">>

\* The method of the static fallback (serpAnalyzer.ts 154).
StaticMethod ==
  <<"s","t","a","t","i","c"," ","m","a","t","c","h"," ","(","L","L","M"," ","d","e","g","r","a","d",
    "e","d",")">>

\* serpAnalyzer.ts 229
EmptyDataMessage ==
  <<"S","E","R","P"," ","d","a","t","a"," ","m","u","s","t"," ","b","e"," ","a"," ","n","o","n","-",
    "e","m","p","t","y"," ","a","r","r","a","y">>

\* serpAnalyzer.ts 167-198: the topics the static analysis looks for, each with
\* the keywords that count as covering it.
potentialTopics == <<
  [topic |->
    <<"c","r","e","d","i","t"," ","s","c","o","r","e"," ","i","m","p","a","c","t">>,
   keywords |-> {
    <<"c","r","e","d","i","t"," ","s","c","o","r","e">>,
    <<"J","C","I","C">>,
    <<"c","r","e","d","i","t"," ","r","e","p","o","r","t">>},
   reasoning |->
    <<"l","o","n","g","-","t","e","r","m"," ","c","r","e","d","i","t"," ","i","m","p","a","c","t"," ",
    "i","s"," ","n","o","t"," ","c","o","v","e","r","e","d">>,
   priority |-> High],
  [topic |->
    <<"r","e","p","a","y","m","e","n","t"," ","a","n","d"," ","f","a","m","i","l","y"," ","f","i","n",
    "a","n","c","e">>,
   keywords |-> {
    <<"r","e","p","a","y","m","e","n","t"," ","p","l","a","n">>,
    <<"f","i","n","a","n","c","i","a","l"," ","p","l","a","n","n","i","n","g">>,
    <<"h","o","u","s","e","h","o","l","d"," ","s","p","e","n","d","i","n","g">>},
   reasoning |->
    <<"a","r","t","i","c","l","e","s"," ","i","g","n","o","r","e"," ","r","e","p","a","y","m","e","n",
    "t"," ","p","r","e","s","s","u","r","e">>,
   priority |-> High],
  [topic |->
    <<"s","e","c","o","n","d"," ","m","o","r","t","g","a","g","e"," ","v","s"," ","o","t","h","e","r",
    " ","f","i","n","a","n","c","i","n","g">>,
   keywords |-> {
    <<"p","e","r","s","o","n","a","l"," ","l","o","a","n">>,
    <<"p","o","l","i","c","y"," ","l","o","a","n">>,
    <<"f","i","n","a","n","c","i","n","g"," ","c","o","m","p","a","r","i","s","o","n">>},
   reasoning |->
    <<"n","o"," ","s","i","d","e","-","b","y","-","s","i","d","e"," ","c","o","m","p","a","r","i","s",
    "o","n">>,
   priority |-> Medium],
  [topic |->
    <<"t","a","x"," ","e","f","f","e","c","t","s">>,
   keywords |-> {
    <<"t","a","x","a","t","i","o","n">>,
    <<"h","o","u","s","e","-","l","a","n","d"," ","t","a","x">>,
    <<"t","a","x"," ","s","a","v","i","n","g">>},
   reasoning |->
    <<"t","a","x"," ","i","s"," ","h","a","r","d","l","y"," ","m","e","n","t","i","o","n","e","d">>,
   priority |-> Medium],
  [topic |->
    <<"r","e","f","u","s","a","l"," ","c","a","s","e","s">>,
   keywords |-> {
    <<"l","o","a","n"," ","r","e","f","u","s","a","l">>,
    <<"r","e","f","u","s","e","d">>,
    <<"u","n","q","u","a","l","i","f","i","e","d">>},
   reasoning |->
    <<"o","n","l","y"," ","s","u","c","c","e","s","s"," ","s","t","o","r","i","e","s"," ","a","r","e",
    " ","t","o","l","d">>,
   priority |-> High]>>

\* parts.join(' ')
RECURSIVE JoinSpaced(_)
JoinSpaced(parts) ==
  IF parts = <<>> THEN <<>>
  ELSE IF Len(parts) = 1 THEN parts[1]
  ELSE parts[1] \o <<" ">> \o JoinSpaced(Tail(parts))

\* serpAnalyzer.ts 164: the text of one entry.
EntryText(e) == JoinSpaced(<<e.title>> \o e.h2 \o <<e.snippet>>)

\* staticContentGapFallback(data): the topics none of whose keywords occurs in
\* the text of the entries.
staticContentGapFallback(data) ==
  LET allText == JoinSpaced([i \in 1..Len(data) |-> EntryText(data[i])])
      Open(t) == \A kw \in t.keywords : ~Includes(allText, kw)
      open    == SelectSeq(potentialTopics, Open)
  IN  [i \in 1..Len(open) |-> Gap(open[i].topic, open[i].reasoning, open[i].priority)]

\* One entry of the SERP data.
SerpEntry(rank, title, h2, snippet) ==
  [rank |-> rank, title |-> title, h2 |-> h2, snippet |-> snippet]

\* The SERP data analyzeSERP may be given: no entry, an entry that covers two
\* of the topics, an entry that covers all.

NoEntries == <<>>

TwoCovered == <<
  SerpEntry(1,
    <<"l","o","a","n"," ","r","a","t","e">>,
    <<<<"t","a","x"," ","s","a","v","i","n","g">>>>,
    <<"y","o","u","r"," ","c","r","e","d","i","t"," ","s","c","o","r","e">>)>>

AllCovered == <<
  SerpEntry(1,
    <<"J","C","I","C">>,
    <<<<"r","e","p","a","y","m","e","n","t"," ","p","l","a","n">>, <<"p","o","l","i","c","y"," ","l","o","a","n">>>>,
    <<"t","a","x","a","t","i","o","n"," ","r","e","f","u","s","e","d">>)>>

SerpInputs == {NoEntries, TwoCovered, AllCovered}

\* An object with one gap.
GapsObject ==
  <<"{","\"","g","a","p","s","\"",":","[","{","\"","t","o","p","i","c","\"",":","\"","f","e","e",
    "s","\"",",","\"","r","e","a","s","o","n","i","n","g","\"",":","\"","n","o","n","e"," ","l","i",
    "s","t"," ","f","e","e","s","\"",",","\"","p","r","i","o","r","i","t","y","\"",":","\"","h","i",
    "g","h","\"","}","]","}">>

\* A bare array of three items: the second with a number for a topic and a priority that is none of the three, the third without reasoning.
GapsArray ==
  <<"[","{","\"","t","o","p","i","c","\"",":","\"","f","e","e","s","\"",",","\"","r","e","a","s",
    "o","n","i","n","g","\"",":","\"","r","\"",",","\"","p","r","i","o","r","i","t","y","\"",":",
    "\"","l","o","w","\"","}",",","{","\"","t","o","p","i","c","\"",":","7",",","\"","r","e","a",
    "s","o","n","i","n","g","\"",":","\"","r","\"",",","\"","p","r","i","o","r","i","t","y","\"",
    ":","\"","u","r","g","e","n","t","\"","}",",","{","\"","t","o","p","i","c","\"",":","\"","x",
    "\"","}","]">>

\* Gaps in a fenced block, with a line break inside a string.
FencedGaps ==
  <<"BQ","BQ","BQ","j","s","o","n","\n","{","\"","g","a","p","s","\"",":","[","{","\"","t","o","p",
    "i","c","\"",":","\"","l","a","t","e","\n","f","e","e","s","\"",",","\"","r","e","a","s","o",
    "n","i","n","g","\"",":","\"","r","\"",",","\"","p","r","i","o","r","i","t","y","\"",":","\"",
    "m","e","d","i","u","m","\"","}","]","}","\n","BQ","BQ","BQ">>

\* Gaps with a trailing comma.
GapsTrailingComma ==
  <<"{","\"","g","a","p","s","\"",":","[","{","\"","t","o","p","i","c","\"",":","\"","f","e","e",
    "s","\"",",","\"","r","e","a","s","o","n","i","n","g","\"",":","\"","r","\"",",","\"","p","r",
    "i","o","r","i","t","y","\"",":","\"","l","o","w","\"","}",",","]","}">>

\* Gaps cut in the middle of the second object.
TruncatedGaps ==
  <<"{","\"","g","a","p","s","\"",":","[","{","\"","t","o","p","i","c","\"",":","\"","f","e","e",
    "s","\"",",","\"","r","e","a","s","o","n","i","n","g","\"",":","\"","r","\"",",","\"","p","r",
    "i","o","r","i","t","y","\"",":","\"","l","o","w","\"","}",",","{","\"","t","o","p","i","c",
    "\"",":","\"","r","a">>

\* Gaps cut in the middle of the second object, the first with its members in another order.
TruncatedReordered ==
  <<"{","\"","g","a","p","s","\"",":","[","{","\"","p","r","i","o","r","i","t","y","\"",":","\"",
    "l","o","w","\"",",","\"","t","o","p","i","c","\"",":","\"","f","e","e","s","\"",",","\"","r",
    "e","a","s","o","n","i","n","g","\"",":","\"","r","\"","}",",","{","\"","t","o","p","i","c",
    "\"",":","\"","r","a">>

\* An object whose gaps are an empty list.
NoGaps ==
  <<"{","\"","g","a","p","s","\"",":","[","]","}">>

\* Prose, then a gap object whose topic and reasoning are longer than the two
\* slice limits.
LongGap ==
  <<"H","e","r","e",":"," ","{","\"","t","o","p","i","c","\"",":","\"">> \o Repeat(<<"t","o","p","i","c"," ">>, 10)
  \o <<"\"",",","\"","r","e","a","s","o","n","i","n","g","\"",":","\"">> \o Repeat(<<"w","h","y"," ">>, 40)
  \o <<"\"",",","\"","p","r","i","o","r","i","t","y","\"",":","\"","h","i","g","h","\"","}">>

\* The texts a model call can return for the gap prompt.
GapTexts == {GapsObject, GapsArray, FencedGaps, GapsTrailingComma, TruncatedGaps,
             TruncatedReordered, NoGaps, LongGap, Prose}

(***************************************************************************)
(* analyzeSERP (serpAnalyzer.ts 221-269) with agentGenerateContentGaps      *)
(* (138-157) and generateContentGaps (contentGapGenerator.ts 74-132): one   *)
(* call as a state machine, one action per stretch of code between awaits.  *)
(***************************************************************************)

\* serpAnalyzer.ts 141-156 and 254-268: what analyzeSERP returns for the
\* outcome of generateContentGaps.
agentGenerateContentGaps(data, outcome) ==
  IF outcome.kind = "error"
  THEN SerpReturned(staticContentGapFallback(data), StaticMethod)
  ELSE SerpReturned(outcome.gaps, outcome.analysisMethod)

\* generateContentGaps ends with that outcome; the rest of analyzeSERP runs.
GapStepEnds(outcome, reported) ==
  /\ gapResult' = outcome
  /\ serpResult' = agentGenerateContentGaps(serpData, outcome)
  /\ progress' = Append(reported, "gap")
  /\ spc' = "returned"

\* serpAnalyzer.ts 225-254 and contentGapGenerator.ts 75-82: the validation,
\* the two static agents and the API key check.
AnalyzeEnter ==
  /\ spc = "entry"
  /\ \E reported \in {progress \o <<"heading", "heading", "keyword", "keyword", "gap">>} :
       IF serpData = <<>>
       THEN /\ serpResult' = SerpThrew(EmptyDataMessage)
            /\ spc' = "threw"
            /\ UNCHANGED <<gapResult, progress>>
       ELSE IF apiKeySet
       THEN /\ spc' = "loop"
            /\ progress' = reported
            /\ UNCHANGED <<gapResult, serpResult>>
       ELSE GapStepEnds(GapsThrew(MissingKeyMessage), reported)
  /\ UNCHANGED <<serpData, gapIndex, gapErrors, attempts>>
  /\ UNCHANGED <<genVars, ragVars, idxVars, chunkVars, vecVars, regVars, sseVars>>

\* Lines 84-97: the next candidate's generateContent is called and awaited.
GapIssueCall ==
  /\ spc = "loop"
  /\ gapIndex <= Len(MODEL_FALLBACKS)
  /\ spc' = "awaiting"
  /\ UNCHANGED <<serpData, gapIndex, gapErrors, attempts, progress, gapResult, serpResult>>
  /\ UNCHANGED <<genVars, ragVars, idxVars, chunkVars, vecVars, regVars, sseVars>>

\* Lines 102-113: the gaps parsed from an answer end the call, or none was
\* parsed and the loop goes on.
GapAnswered(gaps) ==
  IF gaps # <<>>
  THEN /\ GapStepEnds(GapsReturned(gaps, LlmMethod(MODEL_FALLBACKS[gapIndex])), progress)
       /\ UNCHANGED gapIndex
  ELSE /\ gapIndex' = gapIndex + 1
       /\ spc' = "loop"
       /\ UNCHANGED <<progress, gapResult, serpResult>>

\* Lines 97-113: the awaited call resolves with a text.
GapCallSucceeds(text) ==
  /\ spc = "awaiting"
  /\ attempts' = Append(attempts, Answered(MODEL_FALLBACKS[gapIndex], text))
  /\ GapAnswered(parseGapResponse(text))
  /\ UNCHANGED <<serpData, gapErrors>>
  /\ UNCHANGED <<genVars, ragVars, idxVars, chunkVars, vecVars, regVars, sseVars>>

\* GapCatch that goes on to the next candidate after a credential error too.
GapCatchNoAbort(e) ==
  /\ gapIndex' = gapIndex + 1
  /\ spc' = "loop"
  /\ UNCHANGED <<progress, gapResult, serpResult>>

\* Lines 114-122: the catch block, for the caught value e.
GapCatch(e) ==
  IF IsCredentialError(e)
  THEN /\ GapStepEnds(GapsThrew(e.message), progress)
       /\ UNCHANGED gapIndex
  ELSE /\ gapIndex' = gapIndex + 1
       /\ spc' = "loop"
       /\ UNCHANGED <<progress, gapResult, serpResult>>

\* Lines 97-98, 114-122: the awaited call (or response.text()) throws e.
GapCallFails(e) ==
  /\ spc = "awaiting"
  /\ attempts' = Append(attempts, Failed(MODEL_FALLBACKS[gapIndex], e))
  /\ gapErrors' = Append(gapErrors, ErrorEntry(MODEL_FALLBACKS[gapIndex], e))
  /\ GapCatch(e)
  /\ UNCHANGED serpData
  /\ UNCHANGED <<genVars, ragVars, idxVars, chunkVars, vecVars, regVars, sseVars>>

\* Lines 125-131: the loop ran out of candidates.
GapExhausted ==
  /\ spc = "loop"
  /\ gapIndex > Len(MODEL_FALLBACKS)
  /\ GapStepEnds(GapsReturned(<<>>, AnalysisFailed), progress)
  /\ UNCHANGED <<serpData, gapIndex, gapErrors, attempts>>
  /\ UNCHANGED <<genVars, ragVars, idxVars, chunkVars, vecVars, regVars, sseVars>>

GapInit ==
  /\ apiKeySet \in BOOLEAN
  /\ GenIdle
  /\ serpData \in SerpInputs
  /\ spc = "entry"
  /\ gapIndex = 1
  /\ gapErrors = <<>>
  /\ attempts = <<>>
  /\ progress = <<>>
  /\ gapResult = NoGapResult
  /\ serpResult = NoSerpResult
  /\ RagQuiet
  /\ IdxStart
  /\ ChunkStart
  /\ VecStart
  /\ RegStart
  /\ SseStart

GapNext ==
  \/ AnalyzeEnter
  \/ GapIssueCall
  \/ \E text \in GapTexts : GapCallSucceeds(text)
  \/ \E e \in Failures : GapCallFails(e)
  \/ GapExhausted

GapSpec == GapInit /\ [][GapNext]_vars

(***************************************************************************)
(* The skill registry (registry.ts 130-164).                                *)
(***************************************************************************)

\* register calls made after the module was loaded.
MaxRegisters == 3

\* Lines 133-138: register(skill)
Register(skill) ==
  /\ Len(registered) <= MaxRegisters
  /\ skills' = MapSet(skills, skill.name, skill)
  /\ registered' = Append(registered, skill)
  /\ UNCHANGED executed
  /\ UNCHANGED <<genVars, ragVars, idxVars, chunkVars, vecVars, gapVars, sseVars>>

\* Lines 151-157: execute(name): the skill found under the name is run, or
\* the call throws the not-found error and nothing is run.
Execute(name) ==
  /\ executed' = [called |-> TRUE, name |-> name, found |-> MapHas(skills, name),
                  ran |-> MapGet(skills, name), after |-> Len(registered)]
  /\ UNCHANGED <<skills, registered>>
  /\ UNCHANGED <<genVars, ragVars, idxVars, chunkVars, vecVars, gapVars, sseVars>>

RegInit ==
  /\ RegStart
  /\ GenQuiet
  /\ RagQuiet
  /\ IdxStart
  /\ ChunkStart
  /\ VecStart
  /\ GapStart
  /\ SseStart

RegNext ==
  \/ \E skill \in Plugins : Register(skill)
  \/ \E name \in ExecuteNames : Execute(name)

RegSpec == RegInit /\ [][RegNext]_vars

(***************************************************************************)
(* Properties of generatePlanningReport.                                    *)
(***************************************************************************)

NumCandidates == Len(MODEL_FALLBACKS)

\* e is an Error whose message holds the credential marker.
InvalidCredential(e) == e.isError /\ Includes(e.message, ApiKeyMarker)

\* The error record expected for the k-th candidate, from what it threw.
ExpectedEntry(k) ==
  MODEL_FALLBACKS[k] \o <<":", " ">>
    \o (IF failures[k].isError THEN failures[k].message ELSE UnknownError)

\* The candidates 1..k, in priority order.
FirstCandidates(k) == SubSeq(MODEL_FALLBACKS, 1, k)

Terminated == gpc \in {"returned", "threw"}

LastText == texts[Len(texts)]

\* Strategy k, run on its own, hands back a usable (truthy) value.
Yields(strategy) == strategy.returned /\ Truthy(strategy.v)

\* No repair strategy yields a parse of the text.
NoStrategyYields(text) ==
  /\ ~Yields(Strategy1(text))
  /\ ~Yields(Strategy2(text))
  /\ ~Yields(Strategy3(text))
  /\ ~Yields(Strategy4(text))

\* C1: when a candidate's call fails with an invalid-credential error, the loop
\* stops there: that failure is the last one, no later candidate has been
\* called, and the call has failed with the invalid-key error, not with the
\* aggregate error.
C1_CredentialFailureAborts ==
  \A k \in 1..Len(failures) :
    InvalidCredential(failures[k]) =>
      /\ k = Len(failures)
      /\ calls = FirstCandidates(k)
      /\ inflight = 0
      /\ gpc = "threw"
      /\ result = ThrownError(InvalidKeyMessage)

\* C1 witness: the third candidate failed with a credential error after two
\* other failures.
C1_Witness ==
  /\ Len(failures) = 3
  /\ InvalidCredential(failures[3])
  /\ gpc = "threw"

\* C2: when candidates 1..k-1 failed and candidate k returned a text that
\* parses, the result is the report built from that text, the error records are
\* those of candidates 1..k-1 in order, and candidates 1..k are the only ones
\* called.
C2_ReturnsFromFirstSuccess ==
  (texts # <<>> /\ Truthy(safeParseJSON(LastText))) =>
    /\ gpc = "returned"
    /\ Len(texts) = 1
    /\ result = ReturnedReport(ParsedReport(keyword, safeParseJSON(LastText)))
    /\ calls = FirstCandidates(Len(calls))
    /\ Len(errors) = Len(calls) - 1
    /\ Len(failures) = Len(calls) - 1
    /\ \A j \in 1..Len(errors) :
         errors[j] = ExpectedEntry(j) /\ ~InvalidCredential(failures[j])

\* C2 witness: two failures, then clean JSON from the third candidate.
C2_Witness ==
  /\ gpc = "returned"
  /\ texts = <<CleanJson>>
  /\ Len(calls) = 3
  /\ Len(errors) = 2

\* C3: at most one generateContent call is in flight, the candidates called so
\* far are the first ones of MODEL_FALLBACKS in order, and every call before the
\* latest one has completed with a failure.
C3_SequentialInOrder ==
  /\ inflight \in {0, 1}
  /\ (inflight = 1) <=> (gpc = "awaiting")
  /\ calls = FirstCandidates(Len(calls))
  /\ Len(failures) = Len(calls) - inflight - Len(texts)
  /\ Len(texts) <= 1
  /\ texts # <<>> => gpc = "returned"

\* C3 witness: the third candidate's call is in flight.
C3_Witness ==
  /\ gpc = "awaiting"
  /\ inflight = 1
  /\ Len(calls) = 3

\* C4: when every candidate has failed with a non-credential error, the call
\* ends, and it ends with the aggregate error whose message lists one entry per
\* candidate, in candidate order; no report is returned.
C4_ExhaustionAggregates ==
  (/\ Len(failures) = NumCandidates
   /\ \A k \in 1..NumCandidates : ~InvalidCredential(failures[k])) =>
    /\ result.kind # "report"
    /\ gpc \in {"loop", "threw"}
    /\ gpc = "threw" =>
         result = ThrownError(AllFailedPrefix
                    \o JoinLines([k \in 1..NumCandidates |-> ExpectedEntry(k)]))

\* C4 witness: all five candidates failed and the aggregate error was thrown.
C4_Witness ==
  /\ gpc = "threw"
  /\ Len(failures) = NumCandidates
  /\ ~InvalidCredential(failures[NumCandidates])

\* A report with every field present and the three list fields lists.
WellFormed(r) ==
  /\ Truthy(r.title)
  /\ r.outline.t = "array"
  /\ r.complianceNotes.t = "array"
  /\ r.riskWarnings.t = "array"
  /\ r.contentStrategy.t \notin {"undefined", "null"}
  /\ Truthy(r.disclaimer)
  /\ r.isFallback \in BOOLEAN

\* C5: a call that resolved with a text, whatever the text, makes the function
\* return a well-formed report; the only errors the function throws are the
\* missing-key error, the invalid-key error and the aggregate error of a full
\* exhaustion.
C5_NeverFailsOnContent ==
  /\ texts # <<>> =>
       /\ gpc = "returned"
       /\ result.kind = "report"
       /\ WellFormed(result.report)
       /\ Len(failures) = Len(calls) - 1
  /\ gpc = "threw" =>
       /\ result.kind = "error"
       /\ \/ result.message = MissingKeyMessage /\ ~apiKeySet /\ calls = <<>>
          \/ /\ result.message = InvalidKeyMessage
             /\ InvalidCredential(failures[Len(failures)])
          \/ /\ IsPrefixAt(result.message, AllFailedPrefix, 1)
             /\ Len(failures) = NumCandidates
             /\ texts = <<>>

\* C5 witness: the literal null came back and a report was returned.
C5_Witness ==
  /\ gpc = "returned"
  /\ texts = <<NullText>>
  /\ result.kind = "report"

\* C6 as stated: a resolved call whose text no repair strategy parses is
\* handled like a failed call: a failure is recorded for the candidate and no
\* result is returned for it.
C6_ParseFailureAdvances ==
  (texts # <<>> /\ NoStrategyYields(LastText)) =>
    /\ gpc # "returned"
    /\ Len(errors) = Len(calls)

\* C6 amended: a resolved call whose text no repair strategy parses ends the
\* loop: the fallback report built from that text is returned, no failure is
\* recorded for the candidate and no later candidate is called.
C6_ParseFailureReturnsFallback ==
  (texts # <<>> /\ NoStrategyYields(LastText)) =>
    /\ gpc = "returned"
    /\ result = ReturnedReport(FallbackReport(keyword, LastText))
    /\ result.report.isFallback
    /\ Len(errors) = Len(calls) - 1
    /\ calls = FirstCandidates(Len(calls))

\* C6 witness: the second candidate answered with prose.
C6_Witness ==
  /\ texts = <<Prose>>
  /\ Len(calls) = 2
  /\ gpc = "returned"

\* The outline of a fallback report: one entry that carries the first 500
\* characters of the raw text.
FallbackShape(r, kw, text) ==
  /\ r.title = JString(kw \o TitleSuffix)
  /\ r.outline.t = "array"
  /\ Len(r.outline.a) = 1
  /\ Get(r.outline.a[1], DescriptionKey) = JString(SubSeq(text, 1, IF Len(text) < 500 THEN Len(text) ELSE 500))

\* C7 as stated: a returned report has isFallback = true exactly when every
\* repair strategy failed on the raw text, and then it has the fallback shape.
C7_FallbackIffAllStrategiesFail ==
  gpc = "returned" =>
    /\ result.report.isFallback <=> NoStrategyYields(LastText)
    /\ result.report.isFallback => FallbackShape(result.report, keyword, LastText)

\* C8: the call terminates; it never makes more calls than there are
\* candidates; it ends in exactly one of a returned report, the credential
\* error (or the missing-key error before the loop) and the exhaustion error;
\* a non-credential failure ends it only when no candidate is left.
C8_Terminates ==
  /\ <>Terminated
  /\ [](Len(calls) <= NumCandidates)
  /\ [](Terminated <=> result.kind # "none")
  /\ [](gpc = "returned" <=> result.kind = "report")
  /\ []((gpc = "threw" /\ failures # <<>> /\ ~InvalidCredential(failures[Len(failures)]))
          => (Len(calls) = NumCandidates /\ IsPrefixAt(result.message, AllFailedPrefix, 1)))
  /\ [][Terminated => UNCHANGED vars]_vars

\* C8 witness: the loop ended by exhaustion after five calls.
C8_Witness ==
  /\ gpc = "threw"
  /\ Len(calls) = NumCandidates
  /\ IsPrefixAt(result.message, AllFailedPrefix, 1)

\* A strategy yields a valid parsed object: it returned, and the value is an
\* object.
YieldsObject(outcome) == outcome.returned /\ outcome.v.t = "object"

\* The output of the first strategy, in the order fenced block, first brace to
\* last brace, normalization pass, truncation repair, that yields a valid
\* parsed object; null when none does.
FirstYielding(text) ==
  IF YieldsObject(Strategy1(text)) THEN Strategy1(text).v
  ELSE IF YieldsObject(Strategy2(text)) THEN Strategy2(text).v
  ELSE IF YieldsObject(Strategy3(text)) THEN Strategy3(text).v
  ELSE IF YieldsObject(Strategy4(text)) THEN Strategy4(text).v
  ELSE JNull

\* C22: the strategies are tried in the fixed order, a later one only when no
\* earlier one yielded a valid parsed object: the value of safeParseJSON is the
\* output of the first strategy that yields one, and null only when all fail.
C22_ResultIsFirstYieldingStrategy ==
  texts # <<>> => safeParseJSON(LastText) = FirstYielding(LastText)

\* The outline entries of TruncatedOutline that are complete before the cut:
\* the two objects that end before the text does.
CompleteEntries ==
  <<JSONParse(SubSeq(TruncatedOutline, 25, 40)).v,
    JSONParse(SubSeq(TruncatedOutline, 42, 57)).v>>

\* Every value of the sequence entries is an element of the array value list.
ContainsAll(list, entries) ==
  /\ list.t = "array"
  /\ \A i \in 1..Len(entries) : \E j \in 1..Len(list.a) : list.a[j] = entries[i]

\* C23: a response cut in the middle of its outline list is repaired so that
\* the complete leading entries are recovered: the report returned for it is
\* no fallback report and its outline contains every entry that was complete
\* before the cut.
C23_TruncatedOutlineRecovered ==
  (texts # <<>> /\ LastText = TruncatedOutline) =>
    /\ gpc = "returned"
    /\ result.kind = "report"
    /\ ~result.report.isFallback
    /\ ContainsAll(result.report.outline, CompleteEntries)

\* The value produced by the first JSON.parse of safeParseJSON that succeeds,
\* the parse of the fourth attempt included; undefined when every parse throws.
FirstParsed(text) ==
  IF Strategy1(text).returned THEN Strategy1(text).v
  ELSE IF Strategy2(text).returned THEN Strategy2(text).v
  ELSE IF Strategy3(text).returned THEN Strategy3(text).v
  ELSE IF Strategy4Parse(text).ok THEN Strategy4Parse(text).v
  ELSE Undefined

\* Field key of report r is the value of the parsed object p when p has a
\* usable one, and the default otherwise.
DefaultedWhenMissing(r, p, key, default) ==
  IF Truthy(Get(p, key)) THEN r = Get(p, key) ELSE r = default

\* C24: a successfully parsed object is never rejected for an absent or
\* misshapen field: whenever a parse of the response gave an object, with or
\* without a title and whatever its outline, a report that is no fallback is
\* returned, its outline, complianceNotes and riskWarnings are lists, and its
\* title, contentStrategy and disclaimer are the defaults where the object has
\* none.
C24_ParsedObjectNeverRejected ==
  (texts # <<>> /\ FirstParsed(LastText).t = "object") =>
    /\ gpc = "returned"
    /\ result.kind = "report"
    /\ ~result.report.isFallback
    /\ IsArray(result.report.outline)
    /\ IsArray(result.report.complianceNotes)
    /\ IsArray(result.report.riskWarnings)
    /\ DefaultedWhenMissing(result.report.title, FirstParsed(LastText),
                            TitleKey, DefaultTitle(keyword))
    /\ DefaultedWhenMissing(result.report.contentStrategy, FirstParsed(LastText),
                            ContentStrategyKey, JString(<<>>))
    /\ DefaultedWhenMissing(result.report.disclaimer, FirstParsed(LastText),
                            DisclaimerKey, JString(DefaultDisclaimer))

(***************************************************************************)
(* The catch blocks of the /api/analyze and /api/analyze/stream handlers,   *)
(* which receive what generatePlanningReport throws.                        *)
(***************************************************************************)

GeminiKeyMarker == <<"G","E","M","I","N","I","_","A","P","I","_","K","E","Y">>

QuotaMarkers == {<<"4","2","9">>, <<"q","u","o","t","a">>}

TooManyRequests ==
  <<"T","o","o"," ","M","a","n","y"," ","R","e","q","u","e","s","t","s">>

QdrantMarker == <<"Q","d","r","a","n","t">>

RagMarker == <<"R","A","G">>

ManualMarker == <<"M","a","n","u","a","l">>

ManualFileMarker == ManualMarker \o <<".","t","x","t">>

\* The marker of the aggregate message: AllFailedPrefix without colon and line
\* break.
AllFailedMarker == SubSeq(AllFailedPrefix, 1, Len(AllFailedPrefix) - 2)

IncludesAny(message, markers) == \E m \in markers : Includes(message, m)

\* route.ts 88-138: the errorType of the response for an Error with this
\* message.
AnalyzeCategory(message) ==
  IF Includes(message, GeminiKeyMarker) THEN "api_key"
  ELSE IF IncludesAny(message, QuotaMarkers \cup {TooManyRequests}) THEN "quota"
  ELSE IF Includes(message, QdrantMarker) THEN "qdrant"
  ELSE IF IncludesAny(message, {RagMarker, ManualFileMarker}) THEN "rag_init"
  ELSE IF Includes(message, AllFailedMarker) THEN "llm"
  ELSE "unknown"

\* The stream handler's catch (lines 150-171): the error text it sends, named
\* as the errorType of the same text in route.ts; "unknown" is the generic
\* text that quotes the message.
StreamCategory(message) ==
  IF IncludesAny(message, QuotaMarkers) THEN "quota"
  ELSE IF Includes(message, QdrantMarker) THEN "qdrant"
  ELSE IF IncludesAny(message, {RagMarker, ManualMarker}) THEN "rag_init"
  ELSE "unknown"

\* The kind of the failure generatePlanningReport ended with.
FailureKind ==
  IF result.message \in {MissingKeyMessage, InvalidKeyMessage}
  THEN "configuration" ELSE "exhaustion"

\* The category of its own that a kind of failure is reported under.
OwnCategory(kind) ==
  CASE kind = "configuration" -> "api_key"
    [] kind = "ingestion" -> "rag_init"
    [] kind = "exhaustion" -> "llm"

\* C26: a failure of the analyze pipeline that reaches the caller is a missing
\* configuration, a total ingestion failure or an exhaustion of the candidate
\* list, and both handlers report it under the category of its kind, never
\* under that of another kind or the generic one. The handlers call
\* generatePlanningReport after the retrieval, which needs the same key, so
\* the failures of a call made without the key are left aside.
C26_FailuresReportedUnderOwnCategory ==
  (gpc = "threw" /\ apiKeySet) =>
    /\ AnalyzeCategory(result.message) = OwnCategory(FailureKind)
    /\ StreamCategory(result.message) = OwnCategory(FailureKind)

(***************************************************************************)
(* POST /api/analyze/stream (src/unnamed/part_002 24-182): the start        *)
(* callback of one response stream, one action per stretch of code between  *)
(* two awaits.                                                              *)
(***************************************************************************)

\* retrieve is called with topK = 3 (line 84).
StreamTopK == 3

\* The phases of the stream, in the order of the handler.
Phases == <<"serp", "rag", "llm", "done">>

\* send({ step, output }) or send({ step: 'done', result }): the step and
\* what the event tells of the result.
StepEvent(step, detail) == [kind |-> "step", step |-> step, detail |-> detail]

\* send({ error, hint }) of the catch block, and send({ error }) of line 38
\* (category "keyword").
ErrorEvent(category, message) ==
  [kind |-> "error", step |-> "none", detail |-> <<category, message>>]

\* The message of the TypeError of body.keyword.trim when the keyword is a
\* value without trim.
NotAFunction ==
  <<"b","o","d","y",".","k","e","y","w","o","r","d",".","t","r","i","m"," ","i","s"," ","n","o","t",
    " ","a"," ","f","u","n","c","t","i","o","n">>

\* The message of the SyntaxError of request.json() for a body that is no JSON.
UnexpectedToken ==
  <<"U","n","e","x","p","e","c","t","e","d"," ","t","o","k","e","n">>

QdrantDown ==
  <<"Q","d","r","a","n","t"," ","c","o","n","n","e","c","t","i","o","n"," ","r","e","f","u","s","e",
    "d">>

\* What request.json() gives: a body whose keyword is a string, a number or
\* missing, or no JSON at all.
Bodies ==
  {[json |-> TRUE, keyword |-> JString(kw)] : kw \in Keywords \cup {<<>>, <<" ", "\n">>}}
    \cup {[json |-> TRUE, keyword |-> JNumber(5)],
          [json |-> TRUE, keyword |-> Undefined],
          [json |-> FALSE, keyword |-> Undefined]}

\* What an awaited call of the handler can reject with.
Rejections == {Thrown(TRUE, QuotaExceeded), Thrown(TRUE, QdrantDown),
               Thrown(TRUE, EmptyDataMessage), Thrown(FALSE, <<>>)}

\* What retrieve can resolve with for topK = 3: how many documents passed the
\* threshold and how many were skipped.
Retrievals ==
  {r \in [docs : 0..StreamTopK, skipped : 0..StreamTopK] : r.docs + r.skipped <= StreamTopK}

\* controller.enqueue of each of the events, in order: a closed controller
\* takes none and throws.
Enqueued(sent) == IF controllerClosed THEN events ELSE events \o sent

\* Lines 169-171 after the try block or the catch block ran to its end:
\* controller.close(), on a controller that is still open at that point.
Finally ==
  /\ closeCalls' = closeCalls + 1
  /\ controllerClosed' = TRUE
  /\ typeErrors' = IF controllerClosed THEN typeErrors + 1 ELSE typeErrors
  /\ hpc' = "ended"

\* SseCatch that goes on sending the final result after the error event.
SseCatchThenDone(e) ==
  /\ events' = Enqueued(<<ErrorEvent(StreamCategory(MessageOf(e)), MessageOf(e)),
                          StepEvent("done", <<>>)>>)
  /\ Finally
  /\ UNCHANGED <<streamKeyword, completed>>

\* Lines 150-171: the catch block for the caught value e, then the finally
\* block.
SseCatch(e) ==
  /\ events' = Enqueued(<<ErrorEvent(StreamCategory(MessageOf(e)), MessageOf(e))>>)
  /\ Finally
  /\ UNCHANGED <<streamKeyword, completed>>

\* Lines 37-41 and 169-171: the error event for a missing keyword, close(),
\* return, and the finally block with its own close() on the controller that
\* was just closed, which throws a TypeError out of start.
RejectKeyword ==
  /\ events' = Enqueued(<<ErrorEvent("keyword", <<>>)>>)
  /\ closeCalls' = closeCalls + 2
  /\ controllerClosed' = TRUE
  /\ typeErrors' = typeErrors + 1
  /\ hpc' = "ended"
  /\ UNCHANGED <<streamKeyword, completed>>

\* Lines 48-61: the first event of the serp phase, the skill is called, and
\* analyzeSERP reports its two static agents and the start of the third.
StartSerp(kw) ==
  /\ streamKeyword' = kw
  /\ events' = Enqueued(<<StepEvent("serp", <<"start">>),
                          StepEvent("serp", <<"heading">>), StepEvent("serp", <<"heading">>),
                          StepEvent("serp", <<"keyword">>), StepEvent("serp", <<"keyword">>),
                          StepEvent("serp", <<"gap">>)>>)
  /\ hpc' = "serp"
  /\ UNCHANGED <<completed, closeCalls, controllerClosed, typeErrors>>

\* Lines 33-61: request.json() resolved or threw; the keyword is trimmed and
\* checked.
BodyRead(body) ==
  /\ hpc = "idle"
  /\ IF ~body.json THEN SseCatch(Thrown(TRUE, UnexpectedToken))
     ELSE IF body.keyword.t = "undefined" THEN RejectKeyword
     ELSE IF body.keyword.t # "string" THEN SseCatch(Thrown(TRUE, NotAFunction))
     ELSE IF Trim(body.keyword.s) = <<>> THEN RejectKeyword
     ELSE StartSerp(Trim(body.keyword.s))
  /\ UNCHANGED <<genVars, ragVars, idxVars, chunkVars, vecVars, gapVars, regVars>>

\* Lines 61-83: the skill resolved: the last report of analyzeSERP, the
\* summary of the serp phase and the first event of the rag phase.
SerpResolved ==
  /\ hpc = "serp"
  /\ events' = Enqueued(<<StepEvent("serp", <<"gap">>), StepEvent("serp", <<"summary">>),
                          StepEvent("rag", <<"start">>)>>)
  /\ completed' = Append(completed, "serp")
  /\ hpc' = "ensure"
  /\ UNCHANGED <<streamKeyword, closeCalls, controllerClosed, typeErrors>>
  /\ UNCHANGED <<genVars, ragVars, idxVars, chunkVars, vecVars, gapVars, regVars>>

\* Lines 83-84: ensureRAGInitialized resolved and retrieve is called.
EnsureResolved ==
  /\ hpc = "ensure"
  /\ hpc' = "retrieve"
  /\ UNCHANGED <<streamKeyword, events, completed, closeCalls, controllerClosed, typeErrors>>
  /\ UNCHANGED <<genVars, ragVars, idxVars, chunkVars, vecVars, gapVars, regVars>>

\* Lines 84-115: retrieve resolved: the result event of the rag phase and the
\* first event of the llm phase.
RetrieveResolved(r) ==
  /\ hpc = "retrieve"
  /\ events' = Enqueued(<<StepEvent("rag", <<r.docs, r.skipped>>),
                          StepEvent("llm", <<"start">>)>>)
  /\ completed' = Append(completed, "rag")
  /\ hpc' = "llm"
  /\ UNCHANGED <<streamKeyword, closeCalls, controllerClosed, typeErrors>>
  /\ UNCHANGED <<genVars, ragVars, idxVars, chunkVars, vecVars, gapVars, regVars>>

\* Lines 115-149 and 169-171: generatePlanningReport resolved: the result
\* event of the llm phase, the done event, and the finally block.
LlmResolved(isFallback) ==
  /\ hpc = "llm"
  /\ events' = Enqueued(<<StepEvent("llm", <<isFallback>>),
                          StepEvent("done", <<streamKeyword>>)>>)
  /\ completed' = Append(completed, "llm")
  /\ Finally
  /\ UNCHANGED streamKeyword
  /\ UNCHANGED <<genVars, ragVars, idxVars, chunkVars, vecVars, gapVars, regVars>>

\* Lines 150-171: the awaited call of the phase the handler is in rejects.
AwaitRejected(e) ==
  /\ hpc \in {"serp", "ensure", "retrieve", "llm"}
  /\ SseCatch(e)
  /\ UNCHANGED <<genVars, ragVars, idxVars, chunkVars, vecVars, gapVars, regVars>>

SseInit ==
  /\ SseStart
  /\ GenQuiet
  /\ RagQuiet
  /\ IdxStart
  /\ ChunkStart
  /\ VecStart
  /\ GapStart
  /\ RegStart

SseNext ==
  \/ \E body \in Bodies : BodyRead(body)
  \/ SerpResolved
  \/ EnsureResolved
  \/ \E r \in Retrievals : RetrieveResolved(r)
  \/ \E isFallback \in BOOLEAN : LlmResolved(isFallback)
  \/ \E e \in Rejections : AwaitRejected(e)

SseSpec == SseInit /\ [][SseNext]_vars

(***************************************************************************)
(* Properties of ensureRAGInitialized and RAGPipeline.initialize.           *)
(***************************************************************************)

\* Request r has been through the whole chunk loop of initialize and returned.
Ingested(r) == req[r].pc = "ready" /\ req[r].k = NumChunks

\* C9: initialize is a no-op once the retriever is initialized: a request that
\* reaches ensureRAGInitialized, on any route, after an initialize has
\* succeeded makes no embedding call and no upsert, and does not replace the
\* vector store (k, the number of getEmbedding calls the request has made,
\* leaves 0 in the step that assigns this.vectorStore).
C9_InitializeIsNoOpOnceInitialized ==
  \A r \in Requests : req[r].afterInit => req[r].k = 0

\* C10: the guard is a check-then-set that concurrent first callers defeat:
\* every request that evaluates the guard before an initialize has completed
\* passes it, and a request that passed it and returned has embedded every
\* chunk into a store it constructed itself, whatever the other request did.
C10_ConcurrentCallersBothIngest ==
  /\ \A r \in Requests :
       /\ (req[r].pc # "idle" /\ ~req[r].afterInit) => req[r].passed
       /\ (req[r].passed /\ req[r].pc = "ready") => Ingested(r)
  /\ Len(stores) = Cardinality({r \in Requests : req[r].k > 0})

\* Duplicate ingestion: both requests evaluated the guard before any initialize
\* had completed, and both stored every chunk, each in a store of its own.
C10_Witness ==
  /\ \A r \in Requests :
       ~req[r].afterInit /\ Ingested(r) /\ req[r].successCount = NumChunks
  /\ Len(stores) = 2

\* initialize of request r ran its chunk loop to the end and threw.
InitializeThrew(r) == req[r].pc = "failed" /\ req[r].k > 0

\* initialize of request r returned.
InitializeReturned(r) == req[r].pc = "ready" /\ req[r].passed

\* C11: a chunk whose embedding or upsert fails does not end the run of
\* initialize: when initialize throws or returns, every chunk has been
\* attempted. It throws exactly when no chunk was stored; with one stored chunk
\* or more it returns, and the initialized flag is set.
C11_ChunkFailuresDoNotAbort ==
  \A r \in Requests :
    /\ (InitializeThrew(r) \/ InitializeReturned(r))
         => req[r].k = NumChunks /\ req[r].settled = NumChunks
    /\ InitializeThrew(r) => req[r].successCount = 0
    /\ InitializeReturned(r) => req[r].successCount >= 1 /\ isInitialized
    /\ req[r].settled = NumChunks
         => IF req[r].successCount = 0 THEN InitializeThrew(r) ELSE InitializeReturned(r)

\* A chunk failed, a later one was stored, and initialize returned.
C11_Witness ==
  \E r \in Requests :
    /\ InitializeReturned(r)
    /\ req[r].embedFailed
    /\ req[r].successCount >= 1
    /\ isInitialized

\* The error initialize throws: its one throw statement is that of the chunk
\* loop which stored nothing (pipeline.ts 348-350).
IngestionFailed(r) == InitializeThrew(r) /\ req[r].successCount = 0

\* C25: a missing credential is fatal and surfaced at once: with the
\* embedding key missing, initialize fails on the first embedding attempt, no
\* chunk after the first is attempted, and the failure is not reported as the
\* ingestion failure of a loop that stored nothing.
C25_MissingKeyFailsAtFirstChunk ==
  ~apiKeySet =>
    \A r \in Requests :
      /\ req[r].k <= 1
      /\ req[r].settled >= 1 => InitializeThrew(r) /\ ~IngestionFailed(r)

\* The store that createVectorStore returned to request r.
Created(r) == stores[req[r].created]

\* What createVectorStore did for request r, apart from what initialize
\* reports afterwards: it did not throw, and the store it returned is the
\* in-memory one unless both credentials are set and ensureCollection succeeded.
CreateVectorStoreContract(r) ==
  /\ req[r].pc = "failed" /\ req[r].ensure # "none" => InitializeThrew(r)
  /\ req[r].created # 0 =>
       /\ req[r].ensure = "failed" => Created(r).type = "In-Memory"
       /\ ~QdrantConfigured => req[r].ensure = "skipped" /\ Created(r).type = "In-Memory"
       /\ Created(r).type = "Qdrant Cloud" => QdrantConfigured /\ req[r].ensure = "ok"

\* C12: createVectorStore never throws. With both credentials set and
\* ensureCollection failing it returns the in-memory store, and initialize
\* reports the storeType of the in-memory store; with a credential missing it
\* returns the in-memory store and makes no remote call; it returns the Qdrant
\* store only when both credentials are set and ensureCollection succeeded.
C12_CreateVectorStoreFallsBack ==
  \A r \in Requests :
    /\ CreateVectorStoreContract(r)
    /\ InitializeReturned(r) /\ req[r].ensure = "failed"
         => req[r].returned.storeType = "In-Memory"

\* C13: initialize does not fail because the remote service is unreachable,
\* whether it becomes unreachable at a call of ensureCollection or afterwards,
\* at the upserts of the chunks: when every getEmbedding of the run succeeded
\* (and the corpus has chunks), initialize does not throw.
C13_RemoteOutageNeverFailsInitialize ==
  \A r \in Requests : InitializeThrew(r) => req[r].embedFailed

C21_EnsuredCollectionHasDimensionD ==
  [][\A r \in Requests :
       req[r].ensure = "none" /\ req'[r].ensure = "ok"
         => /\ collection'.exists
            /\ collection'.dim = "D"
            /\ collection'.distance = "Cosine"]_vars

\* C18: the chunksStored that initialize returns is the number of chunks that
\* were embedded and stored in that run, with the in-memory store and with the
\* Qdrant store, also when the collection held points before and when
\* initialize is called again.
C18_ChunksStoredCountsThisRun ==
  \A r \in Requests :
    InitializeReturned(r) => req[r].returned.chunksStored = req[r].successCount

\* C19: the chunk loop of one initialize call embeds the chunks one after the
\* other, in the order of the chunks: at most one getEmbedding of the call is
\* in flight, never together with an upsert of the call, and the getEmbedding
\* of chunk k is in flight or over only when the k - 1 chunks before it are
\* settled, embedding and upsert.
C19_ChunksEmbeddedSequentially ==
  \A r \in Requests :
    /\ req[r].embedsInFlight \in {0, 1}
    /\ req[r].embedsInFlight + req[r].upsertsInFlight <= 1
    /\ req[r].k = req[r].settled + req[r].embedsInFlight + req[r].upsertsInFlight
    /\ req[r].pc = "embedding" <=> req[r].embedsInFlight = 1
    /\ req[r].pc = "upserting" <=> req[r].upsertsInFlight = 1

\* The embedding of the last chunk is in flight, after the embedding and the
\* Qdrant upsert of every chunk before it completed.
C19_Witness ==
  \E r \in Requests :
    /\ req[r].pc = "embedding"
    /\ req[r].k = NumChunks
    /\ req[r].settled = NumChunks - 1
    /\ req[r].successCount = NumChunks - 1
    /\ Created(r).type = "Qdrant Cloud"

(***************************************************************************)
(* Properties of the vector stores and of the filter of retrieve.           *)
(***************************************************************************)

\* The last call was a retrieve, and it returned.
Retrieved == retrieved.variant # "none"

\* The payloads of the elements of seq.
Revs(seq) == {seq[i].rev : i \in 1..Len(seq)}

\* Where the candidate of payload rev is in the candidate list.
PositionOf(candidates, rev) == CHOOSE i \in 1..Len(candidates) : candidates[i].rev = rev

\* list holds documents of the candidates, in the order of the candidates.
InOrderOf(list, candidates) ==
  /\ \A i \in 1..Len(list) :
       /\ list[i].rev \in Revs(candidates)
       /\ list[i] = Doc(candidates[PositionOf(candidates, list[i].rev)])
  /\ \A i, j \in 1..Len(list) :
       i < j => PositionOf(candidates, list[i].rev) < PositionOf(candidates, list[j].rev)

\* C15: docs and skipped partition the candidates that the search returned:
\* every candidate is in exactly one of the two lists, nothing else is in them,
\* their lengths add up to the number of candidates, each keeps the order of
\* the candidates, and threshold is 0.65, also when docs is empty.
C15_DocsAndSkippedPartitionCandidates ==
  Retrieved =>
    /\ Revs(retrieved.docs) \cup Revs(retrieved.skipped) = Revs(retrieved.candidates)
    /\ Revs(retrieved.docs) \cap Revs(retrieved.skipped) = {}
    /\ Len(retrieved.docs) + Len(retrieved.skipped) = Len(retrieved.candidates)
    /\ InOrderOf(retrieved.docs, retrieved.candidates)
    /\ InOrderOf(retrieved.skipped, retrieved.candidates)
    /\ retrieved.threshold = MIN_SCORE

\* A retrieve returned with docs empty and two or more candidates in skipped.
C15_Witness ==
  /\ Retrieved
  /\ retrieved.docs = <<>>
  /\ Len(retrieved.skipped) >= 2
  /\ retrieved.threshold = MIN_SCORE

\* C16: every document of docs has a reported score at or over the threshold
\* and every document of skipped a reported score under it, the reported score
\* being the score of the search rounded to three decimal places, also for
\* scores within 0.0005 of the threshold.
C16_ReportedScoresAgreeWithThreshold ==
  Retrieved =>
    /\ \A i \in 1..Len(retrieved.docs) : retrieved.docs[i].score >= retrieved.threshold
    /\ \A i \in 1..Len(retrieved.skipped) : retrieved.skipped[i].score < retrieved.threshold

\* list is sorted by non-increasing value of its field named by which.
NonIncreasing(list, which) ==
  \A i, j \in 1..Len(list) :
    i < j => IF which = "sim" THEN list[i].sim >= list[j].sim
             ELSE list[i].score >= list[j].score

\* C17: docs is sorted by non-increasing score. The search of the in-memory
\* store returns at most topK candidates, sorted by non-increasing similarity,
\* and they are the best of all the stored entries: no entry left out has a
\* greater similarity than a candidate, and none is left out while fewer than
\* topK are returned.
C17_DocsSortedByScore ==
  Retrieved =>
    /\ NonIncreasing(retrieved.docs, "score")
    /\ retrieved.variant = "In-Memory" =>
         /\ Len(retrieved.candidates) = MinOf({retrieved.topK, Len(memEntries)})
         /\ NonIncreasing(retrieved.candidates, "sim")
         /\ \A i \in 1..Len(retrieved.candidates) :
              \E j \in 1..Len(memEntries) : memEntries[j] = retrieved.candidates[i]
         /\ \A j \in 1..Len(memEntries), i \in 1..Len(retrieved.candidates) :
              memEntries[j].rev \notin Revs(retrieved.candidates)
                => memEntries[j].sim <= retrieved.candidates[i].sim

\* The in-memory store holds three entries stored in increasing order of
\* similarity; a search for two returned the best two, best first, and both
\* are in docs.
C17_Witness ==
  /\ Retrieved
  /\ retrieved.variant = "In-Memory"
  /\ Len(memEntries) = 3
  /\ memEntries[1].sim < memEntries[2].sim
  /\ memEntries[2].sim < memEntries[3].sim
  /\ retrieved.topK = 2
  /\ Len(retrieved.docs) = 2
  /\ retrieved.docs[1].score > retrieved.docs[2].score

\* The ids upserted so far, and the number of the last upsert of an id.
UpsertedIds == {upserts[i].id : i \in 1..Len(upserts)}

LastUpsertOf(id) == MaxOf({i \in 1..Len(upserts) : upserts[i].id = id})

\* records holds one record for each id upserted, the one that the last
\* upsert of that id brought, and nothing else.
LastWriteWins(records) ==
  /\ Len(records) = Cardinality(UpsertedIds)
  /\ \A id \in UpsertedIds :
       \E i \in 1..Len(records) :
         /\ records[i].id = id
         /\ records[i].rev = LastUpsertOf(id)
         /\ records[i].sim = upserts[LastUpsertOf(id)].sim

\* C20: after any sequence of upserts each store holds one record for each
\* distinct id, with the vector and payload of the last upsert of that id, and
\* the size it reports is the number of distinct ids: an upsert of an id that
\* is stored already leaves size as it was.
C20_UpsertIsIdempotentById ==
  /\ LastWriteWins(memEntries)
  /\ Len(memEntries) = Cardinality(UpsertedIds)
  /\ LastWriteWins(qdPoints)
  /\ qdSize = Cardinality(UpsertedIds)

(***************************************************************************)
(* Properties of chunkManualText.                                           *)
(***************************************************************************)

\* chunkManualText has returned for a text that is not empty.
Chunked == cpc = "chunked" /\ corpus # <<>>

\* C27: for every text that is not empty, a text of white space only and a
\* text of fewer than ten characters included, chunkManualText returns a list
\* that is not empty.
C27_NonEmptyTextGivesChunks ==
  Chunked => chunks # <<>>

\* C28: every chunk chunkManualText returns for a text that is not empty has a
\* content of ten characters or more, whichever of the three passes made it.
C28_ChunksHaveMinimumLength ==
  Chunked => \A k \in 1..Len(chunks) : Len(chunks[k].content) >= MinChunkLength

\* C29: the chunk at position k of the returned list, counted from zero, has
\* chunkIndex k, whichever pass made the chunks and however many short units
\* were skipped.
C29_ChunkIndexIsPosition ==
  cpc = "chunked" => \A k \in 1..Len(chunks) : chunks[k].chunkIndex = k - 1

(***************************************************************************)
(* Properties of InMemoryVectorStore.                                       *)
(***************************************************************************)

\* search was called with the vector of the last upsert as its query.
SearchedForUpserted ==
  /\ vecSearched.called
  /\ vecUpserted # NoUpsert
  /\ vecSearched.query = vecUpserted.vector

\* C30: on the in-memory store, after upsert(id, v, payload) a search for v
\* with topK of one or more returns that record first, with similarity 1.0,
\* whatever the vector v and whatever other records the store holds.
C30_UpsertedVectorIsFoundFirst ==
  SearchedForUpserted =>
    /\ vecSearched.results # <<>>
    /\ vecSearched.results[1].id = vecUpserted.id
    /\ vecSearched.results[1].rev = vecUpserted.rev
    /\ vecSearched.results[1].sim = 10000

(***************************************************************************)
(* Properties of initialize and retrieve under repeated and concurrent      *)
(* calls.                                                                   *)
(***************************************************************************)

\* The chunks a search on that store can find, for the collection coll: the
\* entries of an in-memory store, the points of the collection behind a Qdrant
\* store.
Searchable(store, coll) ==
  IF store.type = "Qdrant Cloud" THEN coll.points ELSE store.entries

\* C35: an initialize that fails leaves the retriever as it was before the
\* call: when an initialize that followed an earlier successful one has failed
\* (every chunk failed), the flag is still set, the index the pipeline holds
\* still has what the earlier initialize stored, and the guard of retrieve
\* still lets a call pass.
C35_FailedInitializeLeavesState ==
  \A r, q \in Requests :
    (InitializeThrew(r) /\ req[r].afterInit /\ q # r /\ InitializeReturned(q)) =>
      /\ isInitialized
      /\ Held(stores).size > 0
      /\ Searchable(stores[req[q].created], collection)
           \subseteq Searchable(Held(stores), collection)

\* In this step the retrieve of request r calls search.
Searches(r) == req[r].searches = 0 /\ req'[r].searches = 1

\* After this step the initialize of request q has returned, every chunk
\* stored.
CompletedAfterStep(q) ==
  /\ req'[q].pc = "ready"
  /\ req'[q].passed
  /\ req'[q].successCount = NumChunks

\* C36: retrieve never searches an index whose ingestion is still going on:
\* whenever a retrieve passed its guard and calls search, the index searched
\* holds every chunk that an initialize which has returned by then stored,
\* in every interleaving of the requests.
C36_RetrieveSearchesCompleteIndex ==
  [][\A r \in Requests :
       Searches(r) =>
         \A q \in Requests :
           CompletedAfterStep(q) =>
             Chunks \subseteq Searchable(stores'[req'[r].searched], collection')]_vars

(***************************************************************************)
(* Properties of analyzeSERP and generateContentGaps.                       *)
(***************************************************************************)

\* analyzeSERP came to its end after the gap step was entered.
GapStepEnded == spc = "returned"

\* The k-th candidate called gave a text from which gaps were parsed.
YieldedGaps(k) == ~attempts[k].threw /\ parseGapResponse(attempts[k].text) # <<>>

\* No candidate called gave gaps (none was called when the key is missing).
NoCandidateYielded == \A k \in 1..Len(attempts) : ~YieldedGaps(k)

\* What analyzeSERP returns when the gap step fell back on the static analysis.
StaticFallbackResult == SerpReturned(staticContentGapFallback(serpData), StaticMethod)

\* C31: whenever the gap step of analyzeSERP ends without a candidate that
\* yields gaps (missing key, credential error, every candidate failing or
\* giving no gap that can be parsed), analyzeSERP returns the gaps of
\* staticContentGapFallback under the method of the static fallback, and does
\* not fail.
C31_GapStepDegradesToStatic ==
  (spc \in {"returned", "threw"} /\ serpData # <<>> /\ NoCandidateYielded) =>
    serpResult = StaticFallbackResult

\* The k-th candidate called failed with a credential error.
CredentialFailure(k) == attempts[k].threw /\ IsCredentialError(attempts[k].error)

\* The k-th candidate called neither gave gaps nor failed with a credential
\* error: the loop goes on after it.
Advances(k) == ~YieldedGaps(k) /\ ~CredentialFailure(k)

\* C34: generateContentGaps calls the candidates in the order of
\* MODEL_FALLBACKS; it returns at the first candidate whose answer parses to
\* one gap or more, with these gaps and that candidate named in
\* analysisMethod; a candidate that fails with an error that is no credential
\* error, or whose answer parses to no gap, is followed by the next one; when
\* all candidates were tried in vain it returns no gaps under the method
\* of a failed analysis and does not throw; it throws only for a missing key
\* or a credential error.
C34_ReturnsAtFirstCandidateWithGaps ==
  LET n == Len(attempts) IN
  /\ \A k \in 1..n : attempts[k].model = MODEL_FALLBACKS[k]
  /\ \A k \in 1..(n - 1) : Advances(k)
  /\ spc \in {"loop", "awaiting"} =>
       /\ gapIndex = n + 1
       /\ n > 0 => Advances(n)
  /\ (spc = "returned" /\ gapResult.kind = "gaps") =>
       IF n > 0 /\ YieldedGaps(n)
       THEN gapResult = GapsReturned(parseGapResponse(attempts[n].text),
                                     LlmMethod(MODEL_FALLBACKS[n]))
       ELSE /\ n = Len(MODEL_FALLBACKS)
            /\ Advances(n)
            /\ gapResult = GapsReturned(<<>>, AnalysisFailed)
  /\ (spc = "returned" /\ gapResult.kind = "error") =>
       IF apiKeySet
       THEN n > 0 /\ CredentialFailure(n) /\ gapResult = GapsThrew(attempts[n].error.message)
       ELSE n = 0 /\ gapResult = GapsThrew(MissingKeyMessage)
  /\ (spc = "returned") => gapResult.kind \in {"gaps", "error"}

\* The third candidate gave gaps after one candidate failed with an error that
\* is no credential error and one answered without a gap.
C34_Witness ==
  /\ spc = "returned"
  /\ Len(attempts) = 3
  /\ YieldedGaps(3)
  /\ \E j, k \in 1..2 : attempts[j].threw /\ ~attempts[k].threw
  /\ gapResult.analysisMethod = LlmMethod(MODEL_FALLBACKS[3])

(***************************************************************************)
(* Properties of the skill registry.                                        *)
(***************************************************************************)

\* The names register was called with among the first n calls.
RegisteredNames(n) == {registered[k].name : k \in 1..n}

\* The skill of the last of the first n register calls made with that name.
LastRegistered(name, n) ==
  registered[MaxOf({k \in 1..n : registered[k].name = name})]

\* C32: after any sequence of register calls, list() holds exactly one entry
\* for each name registered, and execute(name) runs the skill registered last
\* under that name; for a name never registered it fails with the not-found
\* error and runs no skill.
C32_RegistryKeepsLastOfEachName ==
  /\ {SkillList(skills)[i].name : i \in 1..Len(skills)} = RegisteredNames(Len(registered))
  /\ Len(SkillList(skills)) = Cardinality(RegisteredNames(Len(registered)))
  /\ executed.called =>
       IF executed.name \in RegisteredNames(executed.after)
       THEN executed.found /\ executed.ran = LastRegistered(executed.name, executed.after)
       ELSE ~executed.found /\ executed.ran = NoSkill

\* A name was registered twice, with two skills, and executed afterwards.
C32_Witness ==
  /\ executed.called
  /\ \E j, k \in 1..executed.after :
       /\ j < k
       /\ registered[j].name = executed.name
       /\ registered[k].name = executed.name
       /\ registered[j] # registered[k]

(***************************************************************************)
(* Properties of the response stream of POST /api/analyze/stream.           *)
(***************************************************************************)

\* The place of a step in the order serp, rag, llm, done.
PhaseIndex(step) == CHOOSE k \in 1..Len(Phases) : Phases[k] = step

\* The positions of the events of the stream that carry a step.
StepEvents == {i \in 1..Len(events) : events[i].kind = "step"}

\* C33: in every response stream the events come in the order serp, rag, llm,
\* done: no event of an earlier phase follows one of a later phase; the done
\* event is sent at most once, and only after the serp, rag and llm steps all
\* completed; and an error event is the last event of its stream.
C33_EventsInPhaseOrder ==
  /\ \A i, j \in StepEvents :
       i < j => PhaseIndex(events[i].step) <= PhaseIndex(events[j].step)
  /\ Cardinality({i \in StepEvents : events[i].step = "done"}) <= 1
  /\ \A i \in StepEvents :
       events[i].step = "done" => completed = <<"serp", "rag", "llm">>
  /\ \A i \in 1..Len(events) : events[i].kind = "error" => i = Len(events)

\* A stream that went through the three phases and ended with the done event.
C33_Witness ==
  /\ hpc = "ended"
  /\ events[Len(events)] = StepEvent("done", <<streamKeyword>>)
  /\ {events[i].step : i \in StepEvents} = {"serp", "rag", "llm", "done"}

\* C37: for every request, on every path (empty keyword, success, error),
\* controller.close() is called exactly once, when the handler ends, and no
\* call is made on the controller after it was closed.
C37_ControllerClosedExactlyOnce ==
  /\ closeCalls = (IF hpc = "ended" THEN 1 ELSE 0)
  /\ typeErrors = 0


====
